---- MODULE Spec2Model ----
(***************************************************************************)
(* Verification model of the roll-call (voting record) scraper of          *)
(* kiryu-public-log: pipeline/src/scrape-voting-records.ts.                *)
(*                                                                         *)
(* Text is modelled at the character level.  A character is a string       *)
(* token, a line is a sequence of characters, a text is a sequence of      *)
(* lines (the result of text.split("\n")).  Tokens:                        *)
(*   "SP"          U+3000 ideographic space (the name separator)           *)
(*   " "           ASCII space                                             *)
(*   "h_no" ...    hiragana (h_ prefix)                                    *)
(*   "O" "X" ...   vote symbols, see normalizeVote                         *)
(*   digits "0".."9", full-width digits "F0".."F9"                         *)
(*   anything else a kanji, written in romaji:                             *)
(*     gi=議 chou=長 sai=採 ketsu=決 ka=加 in=員 uji=氏 mei=名 an=案       *)
(*     dai=第 gou=号 ku=久 ho=保 ta=田 kawa=河 hara=原 i=井 yama=山       *)
(*     yuki=之 uchi=内 tsuji=辻 ii=飯 shima=島 taka=高 hashi=橋            *)
(*     hiro=裕 ichi=一 makoto=誠 kaku=欠 shi=市 tei=提 shutsu=出         *)
(*     yudane=委 kai=会 musubi=結 hate=果 rei=令 wa=和 hei=平 sei=成       *)
(*     san=賛 hou=報 koku=告 uke=請 negai=願 chin=陳 jou=情 hatsu=発       *)
(*     hakaru=諮 mon=問 beshi=可 ina=否 osamu=修 tadashi=正 dou=同         *)
(*     kokoro=意 taku=択 fu=不 koto=異 mune=旨 mawaru=回 kotae=答          *)
(*     ban=番 uji=氏 kudari=条 tatoe=例 tei_=定                            *)
(***************************************************************************)
EXTENDS Naturals, Integers, Sequences, FiniteSets, TLC

VARIABLES
  nameSrc,     \* how the argument was drawn: arbitrary characters, or a
               \* member list and the way its name block was rendered
  charStr,     \* splitNamesFromSequence: the argument
  names,       \* splitNamesFromSequence: the returned list
  npc          \* "start" before the call, "done" after it

namesVars == <<nameSrc, charStr, names, npc>>

VARIABLES
  docSrc,             \* how the document was drawn: members, marker, bills
  text,               \* parseVotingText: the argument, as lines
  memberNames,        \* parseVotingText: memberNames
  billBlocks,         \* parseVotingText: billBlocks
  speakerMemberName,  \* parseVotingText: speakerMemberName, << >> for null
  blockIdx,           \* parseVotingText: position of the loop of lines 731-793
  records,            \* parseVotingText: records
  ppc                 \* parseVotingText: "start", "scan", "speaker", "build", "done"

parseVars ==
  <<docSrc, text, memberNames, billBlocks, speakerMemberName, blockIdx, records, ppc>>

VARIABLES
  docs,          \* the PDF behind the votingRecordPdfUrl of each session
  files,         \* OUTPUT_DIR: the file of each slug
  run,           \* which run of main this is; also the clock of the run
  entryIdx,      \* main: position of the loop of lines 999-1052
  successCount,  \* main: successCount
  skipCount,     \* main: skipCount
  errorCount,    \* main: errorCount
  fetched,       \* how many times the PDF of each session has been requested
  delays,        \* how many times main has waited out sleep(1000)
  lastLog,       \* the last line main has logged
  mpc            \* "loop" inside the loop of main, "exit" after main returned

mainVars ==
  <<docs, files, run, entryIdx, successCount, skipCount, errorCount, fetched, delays,
    lastLog, mpc>>

VARIABLES
  items,         \* groupIntoRows: the argument, a list of [text, x, y]
  itemRows,      \* groupIntoRows: the returned rows
  rpc            \* "start" before the call, "done" after it

rowsVars == <<items, itemRows, rpc>>

VARIABLES
  qSrc,          \* what the list of questions was generated from
  pagesJson,     \* parsePdfWithCoordinates: the argument, one entry per page
  pageIdx,       \* pages taken so far
  pageRows,      \* the rows of the page being walked
  rowIdx,        \* rows of that page taken so far
  members,       \* the MemberQuestion list built so far
  currentMember, \* index into members, 0 for null
  currentItem,   \* index into the current member's items, 0 for null
  orderCounter,
  qpc            \* "page", "row", "done"

questionVars ==
  <<qSrc, pagesJson, pageIdx, pageRows, rowIdx, members, currentMember,
    currentItem, orderCounter, qpc>>

VARIABLES
  updatesFile,   \* data/updates.json: [exists |-> FALSE] or the UpdatesData saved
  updateRuns     \* runs of the updates scraper so far; the clock of new Date()

updatesVars == <<updatesFile, updateRuns>>

VARIABLES
  charSrc,       \* what the text of extractNameCharSequence was generated from
  nameText,      \* extractNameCharSequence: the argument, as lines
  nameChars,     \* the returned character sequence
  cpc            \* "start" before the call, "done" after it

charsVars == <<charSrc, nameText, nameChars, cpc>>

restVars == <<rowsVars, questionVars, updatesVars, charsVars>>

vars == <<namesVars, parseVars, mainVars, restVars>>

-----------------------------------------------------------------------------
(* Generic string helpers (JavaScript String methods on token sequences)   *)

\* s.slice(from) / s.slice(0, to) with JavaScript's treatment of negative
\* and out-of-range indices (0-based, end exclusive).
JsIndex(n, len) == IF n < 0 THEN (IF len + n < 0 THEN 0 ELSE len + n)
                   ELSE (IF n > len THEN len ELSE n)

Slice(s, from, to) ==
  LET f == JsIndex(from, Len(s))
      t == JsIndex(to, Len(s))
  IN IF f >= t THEN << >> ELSE SubSeq(s, f + 1, t)

SliceFrom(s, from) == Slice(s, from, Len(s))

\* s.endsWith(suffix)
EndsWith(s, suffix) ==
  /\ Len(suffix) <= Len(s)
  /\ SubSeq(s, Len(s) - Len(suffix) + 1, Len(s)) = suffix

\* true when pat occurs in s starting at 1-based position p
MatchAt(s, p, pat) ==
  /\ p + Len(pat) - 1 <= Len(s)
  /\ SubSeq(s, p, p + Len(pat) - 1) = pat

\* s.includes(pat)
Includes(s, pat) == \E p \in 1..(Len(s) + 1) : MatchAt(s, p, pat)

-----------------------------------------------------------------------------
(* Family-name dictionary, scrape-voting-records.ts:192-198                *)

KNOWN_1CHAR_FAMILIES == { <<"tsuji">> }

\* A JavaScript Set iterates in insertion order, so the 3-character
\* families are kept as a sequence.
KNOWN_3CHAR_FAMILIES ==
  << <<"ku", "ho", "ta">>, <<"kawa", "hara", "i">>, <<"yama", "yuki", "uchi">> >>

KNOWN_2CHAR_FAMILIES ==
  { <<"ii", "shima">>, <<"uta", "shiro">>, <<"wata", "nabe">>, <<"seki", "kuchi">>,
    <<"ko", "shima">>, <<"sono", "ta">>, <<"kita", "gawa">>, <<"kou", "fuji">>,
    <<"tan", "hane">>, <<"hito", "mi">>, <<"kon", "fuji">>, <<"shin", "i">>,
    <<"oka", "be">>, <<"fuku", "shima">>, <<"sa", "fuji">>, <<"shuu", "fuji">>,
    <<"ko", "taki">>, <<"fushi", "ki">>, <<"mori", "yama">>, <<"shuu", "higashi">>,
    <<"ta", "shima">>, <<"ishi", "wata">> }

-----------------------------------------------------------------------------
(* splitNamesFromSequence, scrape-voting-records.ts:210-317                *)

\* fixed.replace(new RegExp(family + "(?!　)", "g"), family + "　"):
\* left-to-right, non-overlapping; an occurrence matches when the next
\* character is not U+3000 (or the string ends).
RECURSIVE ReplaceFamilyFrom(_, _, _)
ReplaceFamilyFrom(s, p, family) ==
  IF p > Len(s) THEN << >>
  ELSE IF /\ MatchAt(s, p, family)
          /\ ~(p + Len(family) <= Len(s) /\ s[p + Len(family)] = "SP")
       THEN family \o <<"SP">> \o ReplaceFamilyFrom(s, p + Len(family), family)
       ELSE <<s[p]>> \o ReplaceFamilyFrom(s, p + 1, family)

\* lines 214-218: the repair loop over KNOWN_3CHAR_FAMILIES
RECURSIVE InsertAfterFamilies(_, _)
InsertAfterFamilies(s, k) ==
  IF k > Len(KNOWN_3CHAR_FAMILIES) THEN s
  ELSE InsertAfterFamilies(ReplaceFamilyFrom(s, 1, KNOWN_3CHAR_FAMILIES[k]), k + 1)

\* the repair left out
FixMissingSeparators_NoRepair(s) == s

FixMissingSeparators(s) == InsertAfterFamilies(s, 1)

\* lines 220-236: split on U+3000, dropping empty segments
RECURSIVE RawSegmentsFrom(_, _, _)
RawSegmentsFrom(s, p, currentSeg) ==
  IF p > Len(s)
  THEN (IF Len(currentSeg) > 0 THEN <<currentSeg>> ELSE << >>)
  ELSE IF s[p] = "SP"
       THEN (IF Len(currentSeg) > 0
             THEN <<currentSeg>> \o RawSegmentsFrom(s, p + 1, << >>)
             ELSE RawSegmentsFrom(s, p + 1, << >>))
       ELSE RawSegmentsFrom(s, p + 1, Append(currentSeg, s[p]))

RawSegments(s) == RawSegmentsFrom(s, 1, << >>)

\* the dictionary lookups left out: every family taken as 2 characters
DictFamilyLen_Always2(seg) == 2

\* lines 258-291: family length of an interior segment by dictionary lookup
DictFamilyLen(seg) ==
  IF \E k \in 1..Len(KNOWN_3CHAR_FAMILIES) :
       EndsWith(seg, KNOWN_3CHAR_FAMILIES[k]) /\ Len(seg) > Len(KNOWN_3CHAR_FAMILIES[k])
  THEN 3
  ELSE IF \E family \in KNOWN_1CHAR_FAMILIES :
            EndsWith(seg, family) /\ Len(seg) > Len(family)
  THEN 1
  ELSE IF Len(seg) >= 3 /\ SliceFrom(seg, -2) \in KNOWN_2CHAR_FAMILIES
  THEN 2
  ELSE 2

\* lines 293-305: the alternative lengths 2, 1, 3 when the given name would
\* not have 1 to 4 characters
ValidGivenLen(g) == g >= 1 /\ g <= 4

AltFamilyLen(seg, familyLen) ==
  IF ValidGivenLen(Len(seg) - familyLen) THEN familyLen
  ELSE IF ValidGivenLen(Len(seg) - 2) THEN 2
  ELSE IF ValidGivenLen(Len(seg) - 1) THEN 1
  ELSE IF ValidGivenLen(Len(seg) - 3) THEN 3
  ELSE familyLen

FamilyLen(seg) == AltFamilyLen(seg, DictFamilyLen(seg))

\* lines 243-314: the loop over segments 2..n (1-based), carrying prevFamily
RECURSIVE NamesFromSegments(_, _, _)
NamesFromSegments(segs, i, prevFamily) ==
  IF i > Len(segs) THEN << >>
  ELSE
    LET seg == segs[i] IN
    IF i = Len(segs)
    THEN (IF Len(prevFamily) > 0 /\ Len(seg) > 0
          THEN << prevFamily \o <<"SP">> \o seg >>
          ELSE << >>)
    ELSE
      LET familyLen == FamilyLen(seg)
          given  == Slice(seg, 0, Len(seg) - familyLen)
          family == SliceFrom(seg, Len(seg) - familyLen)
      IN (IF Len(prevFamily) > 0 /\ Len(given) > 0
          THEN << prevFamily \o <<"SP">> \o given >>
          ELSE << >>)
         \o NamesFromSegments(segs, i + 1, family)

splitNamesFromSequence(s) ==
  LET rawSegments == RawSegments(FixMissingSeparators(s))
  IN IF Len(rawSegments) < 2 THEN << >>
     ELSE NamesFromSegments(rawSegments, 2, rawSegments[1])

-----------------------------------------------------------------------------
(* Character classes and whitespace                                        *)

Hiragana == {"h_no", "h_ta", "h_me", "h_ni", "h_wa", "h_ra", "h_zu", "h_na", "h_i",
             "h_su", "h_ru", "h_ko", "h_to"}
Digits == {"0", "1", "2", "3", "4", "5", "6", "7", "8", "9"}
FullWidthDigits == {"F0", "F1", "F2", "F3", "F4", "F5", "F6", "F7", "F8", "F9"}
\* the non-kanji tokens: O=○ O2=〇 X=× X2=✕ T=△ FCOLON=：
NonKanji ==
  Hiragana \cup Digits \cup FullWidthDigits
  \cup {"SP", " ", "TAB", "O", "O2", "X", "X2", "T", "FCOLON", ":"}

\* isCJK, lines 80-86: every token that is not listed above is a kanji of
\* U+4E00..U+9FFF
isCJK(ch) == ch \notin NonKanji

\* isHiragana, lines 104-107
isHiragana(ch) == ch \in Hiragana

\* /[ \t\r\n]/: ASCII whitespace, which does not include U+3000
AsciiSpace == {" ", "TAB"}

\* \s and String.prototype.trim: whitespace including U+3000
WhiteSpace == {" ", "TAB", "SP"}

\* rawLine.replace(/[ \t\r\n]/g, "")
StripAscii(line) == SelectSeq(line, LAMBDA c : c \notin AsciiSpace)

RECURSIVE TrimStart(_)
TrimStart(line) ==
  IF Len(line) > 0 /\ Head(line) \in WhiteSpace THEN TrimStart(Tail(line)) ELSE line

RECURSIVE TrimEnd(_)
TrimEnd(line) ==
  IF Len(line) > 0 /\ line[Len(line)] \in WhiteSpace
  THEN TrimEnd(SubSeq(line, 1, Len(line) - 1)) ELSE line

\* line.trim(): JavaScript's trim removes U+3000 as well (see the note at
\* lines 89-92 of the source)
Trim(line) == TrimEnd(TrimStart(line))

\* toHalf, lines 71-75
ToHalfChar(c) ==
  CASE c = "F0" -> "0" [] c = "F1" -> "1" [] c = "F2" -> "2" [] c = "F3" -> "3"
    [] c = "F4" -> "4" [] c = "F5" -> "5" [] c = "F6" -> "6" [] c = "F7" -> "7"
    [] c = "F8" -> "8" [] c = "F9" -> "9" [] OTHER -> c

toHalfLine(line) == [p \in 1..Len(line) |-> ToHalfChar(line[p])]

toHalf(lines) == [l \in 1..Len(lines) |-> toHalfLine(lines[l])]

\* s.replace(/pat/g, ""): every occurrence removed, left to right
RECURSIVE RemoveAll(_, _, _)
RemoveAll(s, p, pat) ==
  IF p > Len(s) THEN << >>
  ELSE IF MatchAt(s, p, pat) THEN RemoveAll(s, p + Len(pat), pat)
       ELSE <<s[p]>> \o RemoveAll(s, p + 1, pat)

\* s.replace(/^pat/, "")
RemovePrefix(s, pat) == IF MatchAt(s, 1, pat) THEN SubSeq(s, Len(pat) + 1, Len(s)) ELSE s

\* s.replace(/pat$/, "")
RemoveSuffix(s, pat) == IF EndsWith(s, pat) THEN SubSeq(s, 1, Len(s) - Len(pat)) ELSE s

-----------------------------------------------------------------------------
(* extractNameCharSequence, scrape-voting-records.ts:113-184               *)

SpeakerMarker ==
  <<"gi", "chou", "h_no", "h_ta", "h_me", "sai", "ketsu", "h_ni", "ka", "h_wa", "h_ra", "h_zu">>

NameHeader == <<"gi", "in", "uji", "mei">>

\* 0-based index of the first of the lines hits (1-based), -1 when there is
\* none
FirstLine(hits) ==
  IF hits = {} THEN -1
  ELSE (CHOOSE l \in hits : \A m \in hits : l <= m) - 1

\* lines 117-135
NameRegionStart(lines) ==
  LET byHeader == FirstLine({l \in 1..Len(lines) : Includes(lines[l], NameHeader)})
      byLegend == FirstLine({l \in 1..Len(lines) :
                    \/ Includes(lines[l], <<"O", "FCOLON", "san", "sei">>)
                    \/ Includes(lines[l], <<"O", ":", "san", "sei">>)
                    \/ Includes(lines[l], <<"O2", "FCOLON", "san", "sei">>)})
  IN IF byHeader # -1 THEN byHeader ELSE byLegend

\* lines 146-159: the collection loop, i 0-based
RECURSIVE CollectNameChars(_, _, _, _, _)
CollectNameChars(lines, i, searchEnd, nameRegionStart, foundFirstCJK) ==
  IF i >= searchEnd THEN << >>
  ELSE
    LET stripped == StripAscii(lines[i + 1]) IN
    IF i > nameRegionStart /\ Includes(lines[i + 1], NameHeader) THEN << >>
    ELSE IF Len(stripped) # 1
    THEN CollectNameChars(lines, i + 1, searchEnd, nameRegionStart, foundFirstCJK)
    ELSE
      LET ch == stripped[1]
          found == foundFirstCJK \/ isCJK(ch)
      IN IF (isCJK(ch) \/ ch = "SP" \/ isHiragana(ch)) /\ found
         THEN <<ch>> \o CollectNameChars(lines, i + 1, searchEnd, nameRegionStart, found)
         ELSE CollectNameChars(lines, i + 1, searchEnd, nameRegionStart, found)

\* lines 163-181: the removals, in the order of the source
CleanNameChars(charSeq) ==
  LET r1 == RemoveAll(charSeq, 1, SpeakerMarker)
      r2 == RemoveAll(r1, 1, <<"shi", "chou", "tei", "shutsu">>)
      r3 == RemoveAll(r2, 1, <<"shi", "SP", "chou", "SP", "tei", "SP", "shutsu">>)
      r4 == RemoveAll(r3, 1, <<"gi", "in", "tei", "shutsu">>)
      r5 == RemoveAll(r4, 1, <<"yudane", "in", "kai", "tei", "shutsu">>)
      r6 == SelectSeq(r5, LAMBDA c : ~isHiragana(c))
      r7 == RemoveSuffix(r6, <<"gi", "chou">>)
      r8 == RemovePrefix(r7, <<"gi", "chou">>)
      r9 == RemoveAll(r8, 1, <<"gi", "sai", "ketsu", "ka">>)
      r10 == RemovePrefix(r9, <<"tei", "SP", "shutsu">>)
  IN RemovePrefix(r10, <<"tei", "shutsu">>)

\* the collection begun at the marker line itself
extractNameCharSequence_FromMarker(lines) ==
  LET nameRegionStart == NameRegionStart(lines) IN
  IF nameRegionStart = -1 THEN << >>
  ELSE
    LET searchStart == nameRegionStart
        searchEnd == IF nameRegionStart + 250 > Len(lines) THEN Len(lines)
                     ELSE nameRegionStart + 250
    IN CleanNameChars(CollectNameChars(lines, searchStart, searchEnd, nameRegionStart, FALSE))

\* lines 113-184
extractNameCharSequence(lines) ==
  LET nameRegionStart == NameRegionStart(lines) IN
  IF nameRegionStart = -1 THEN << >>
  ELSE
    LET searchStart == IF nameRegionStart - 5 < 0 THEN 0 ELSE nameRegionStart - 5
        searchEnd == IF nameRegionStart + 250 > Len(lines) THEN Len(lines)
                     ELSE nameRegionStart + 250
    IN CleanNameChars(CollectNameChars(lines, searchStart, searchEnd, nameRegionStart, FALSE))

-----------------------------------------------------------------------------
(* extractMemberNames, scrape-voting-records.ts:322-339                    *)

\* lines 328-336: the first occurrence of each name is kept
RECURSIVE UniqueNames(_, _)
UniqueNames(nameSeq, seen) ==
  IF Len(nameSeq) = 0 THEN << >>
  ELSE IF Head(nameSeq) \in seen THEN UniqueNames(Tail(nameSeq), seen)
       ELSE <<Head(nameSeq)>> \o UniqueNames(Tail(nameSeq), seen \cup {Head(nameSeq)})

extractMemberNames(lines) ==
  LET chars == extractNameCharSequence(lines) IN
  IF Len(chars) = 0 THEN << >>
  ELSE UniqueNames(splitNamesFromSequence(chars), {})

-----------------------------------------------------------------------------
(* Vote symbols and outcome phrases                                        *)

\* normalizeVote, lines 59-69, on the one-character matches of
\* extractVoteSymbols; "none" stands for null
normalizeVote(c) ==
  CASE c \in {"O", "O2"} -> "sansei"      \* 賛成
    [] c \in {"X", "X2"} -> "hantai"      \* 反対
    [] c = "kaku" -> "kesseki"            \* 欠席
    [] c = "T" -> "taiseki"               \* 退席
    [] OTHER -> "none"

VoteSymbolChars == {"O", "X", "O2", "X2", "T", "kaku"}

\* extractVoteSymbols, lines 362-375: /[○×〇✕△]|欠/g
extractVoteSymbols(line) ==
  LET hits == SelectSeq(line, LAMBDA c : c \in VoteSymbolChars /\ normalizeVote(c) # "none")
  IN [k \in 1..Len(hits) |-> normalizeVote(hits[k])]

Doui == <<"dou", "kokoro">>
IgiNai == <<"koto", "gi", "h_na", "h_i", "mune">>

\* resultPatterns, lines 382-393, in order (the last pattern holds a line
\* break and cannot occur inside one line)
resultPatterns ==
  << <<"hara", "an", "beshi", "ketsu">>,
     <<"osamu", "tadashi", "beshi", "ketsu">>,
     <<"hara", "an", "ina", "ketsu">>,
     Doui,
     <<"dou", "SP", "SP", "kokoro">>,
     <<"dou", "SP", "kokoro">>,
     <<"sai", "taku">>,
     <<"fu", "sai", "taku">>,
     IgiNai \o <<"mawaru", "kotae">> >>

\* 異議ない旨回答することに決定
IgiNaiKettei == IgiNai \o <<"mawaru", "kotae", "h_su", "h_ru", "h_ko", "h_to", "h_ni", "ketsu", "tei_">>

\* extractResult, lines 380-402; << >> is the empty string
extractResult(line) ==
  IF \E k \in 1..Len(resultPatterns) : Includes(line, resultPatterns[k])
  THEN LET k == CHOOSE k \in 1..Len(resultPatterns) :
                  /\ Includes(line, resultPatterns[k])
                  /\ \A j \in 1..(k - 1) : ~Includes(line, resultPatterns[j])
           pat == resultPatterns[k]
       IN IF Includes(pat, <<"dou">>) /\ Includes(pat, <<"kokoro">>) THEN Doui
          ELSE IF Includes(pat, IgiNai) THEN IgiNaiKettei
          ELSE pat
  ELSE << >>

-----------------------------------------------------------------------------
(* Bill identifiers, scrape-voting-records.ts:445-446 and 479-481          *)

\* the alternatives of billPattern, in order: prefix, digits, suffix
billPattern ==
  << [pre |-> <<"gi", "an", "dai">>, suf |-> <<"gou">>],
     [pre |-> <<"hou", "koku", "dai">>, suf |-> <<"gou">>],
     [pre |-> <<"uke", "negai", "dai">>, suf |-> <<"gou">>],
     [pre |-> <<"chin", "jou", "dai">>, suf |-> <<"gou">>],
     [pre |-> <<"hatsu", "gi", "an", "dai">>, suf |-> <<"gou">>],
     [pre |-> <<"gi", "dai">>, suf |-> <<"gou", "gi", "an">>],
     [pre |-> <<"hakaru", "mon", "dai">>, suf |-> <<"gou">>] >>

\* length of the run of \d starting at position p
RECURSIVE DigitRun(_, _)
DigitRun(line, p) ==
  IF p <= Len(line) /\ line[p] \in Digits THEN 1 + DigitRun(line, p + 1) ELSE 0

\* length of the match of one alternative at p, 0 when it does not match
BillAltLen(line, p, alt) ==
  IF MatchAt(line, p, alt.pre)
  THEN LET d == DigitRun(line, p + Len(alt.pre)) IN
       IF d >= 1 /\ MatchAt(line, p + Len(alt.pre) + d, alt.suf)
       THEN Len(alt.pre) + d + Len(alt.suf) ELSE 0
  ELSE 0

BillLenAt(line, p) ==
  IF \E k \in 1..Len(billPattern) : BillAltLen(line, p, billPattern[k]) > 0
  THEN BillAltLen(line, p, billPattern[CHOOSE k \in 1..Len(billPattern) :
         /\ BillAltLen(line, p, billPattern[k]) > 0
         /\ \A j \in 1..(k - 1) : BillAltLen(line, p, billPattern[j]) = 0])
  ELSE 0

\* line.match(billPattern): position (1-based) and length of the leftmost
\* match, pos 0 when there is none
BillMatch(line) ==
  IF \E p \in 1..Len(line) : BillLenAt(line, p) > 0
  THEN LET p == CHOOSE p \in 1..Len(line) :
                  BillLenAt(line, p) > 0 /\ \A q \in 1..(p - 1) : BillLenAt(line, q) = 0
       IN [pos |-> p, len |-> BillLenAt(line, p)]
  ELSE [pos |-> 0, len |-> 0]

-----------------------------------------------------------------------------
(* The bill scan of parseVotingText, scrape-voting-records.ts:464-633      *)

\* first position at or after p that holds no whitespace (\s*)
RECURSIVE SkipSpace(_, _)
SkipSpace(line, p) ==
  IF p <= Len(line) /\ line[p] \in WhiteSpace THEN SkipSpace(line, p + 1) ELSE p

\* /c1\s*c2\s*...\s*cn/ anchored at p: the position after the match, 0 when
\* it does not match
RECURSIVE SpacedEnd(_, _, _)
SpacedEnd(line, p, pat) ==
  IF p <= Len(line) /\ line[p] = Head(pat)
  THEN (IF Len(pat) = 1 THEN p + 1
        ELSE SpacedEnd(line, SkipSpace(line, p + 1), Tail(pat)))
  ELSE 0

StartsWithChar(line, S) == Len(line) > 0 /\ line[1] \in S

\* lines 538-543: /^(議員氏名|議案番号|○：賛成|〇：賛成|結\s*果|令和\s*\d|平成\s*\d)/
StopAtNameRegion(line) ==
  \/ MatchAt(line, 1, NameHeader)
  \/ MatchAt(line, 1, <<"gi", "an", "ban", "gou">>)
  \/ MatchAt(line, 1, <<"O", "FCOLON", "san", "sei">>)
  \/ MatchAt(line, 1, <<"O2", "FCOLON", "san", "sei">>)
  \/ SpacedEnd(line, 1, <<"musubi", "hate">>) > 0
  \/ \E era \in { <<"rei", "wa">>, <<"hei", "sei">> } :
       /\ MatchAt(line, 1, era)
       /\ LET d == SkipSpace(line, 3) IN d <= Len(line) /\ line[d] \in Digits

\* line 545: a single kanji followed by a line that trims to a single kanji
\* (or to U+3000, which trim never leaves); i is the 0-based line index
StopAtVerticalName(lines, i, line) ==
  /\ Len(line) = 1 /\ isCJK(line[1])
  /\ i + 1 < Len(lines)
  /\ LET t == Trim(lines[i + 2]) IN Len(t) = 1 /\ (isCJK(t[1]) \/ t[1] = "SP")

\* lines 547-553
StopAtCategory(line) ==
  /\ \/ SpacedEnd(line, 1, <<"shi", "chou", "tei", "shutsu">>) > 0
     \/ SpacedEnd(line, 1, <<"gi", "chou", "h_no">>) > 0
     \/ SpacedEnd(line, 1, <<"gi", "in", "tei">>) > 0
     \/ SpacedEnd(line, 1, <<"yudane", "in", "kai">>) > 0
  /\ ~Includes(line, <<"gi", "chou", "h_no", "h_ta", "h_me">>)

\* lines 556-559
IsSpeakerLine(lines, i, line) ==
  \/ Includes(line, <<"gi", "chou">>)
  \/ /\ Includes(line, <<"gi">>)
     /\ i + 1 < Len(lines)
     /\ Trim(lines[i + 2]) = <<"chou">>

\* nextLine.split(/議/)[0]
BeforeFirstGi(line) ==
  IF \E p \in 1..Len(line) : line[p] = "gi"
  THEN SubSeq(line, 1, (CHOOSE p \in 1..Len(line) :
                          line[p] = "gi" /\ \A q \in 1..(p - 1) : line[q] # "gi") - 1)
  ELSE line

\* (?:議長のため採決に加わらず|議\s*長\s*の\s*た\s*め[\s\S]*?ず) anchored at q:
\* the position after the match, 0 when it does not match
MarkerEndAt(line, q) ==
  IF MatchAt(line, q, SpeakerMarker) THEN q + Len(SpeakerMarker)
  ELSE LET e == SpacedEnd(line, q, <<"gi", "chou", "h_no", "h_ta", "h_me">>) IN
       IF e > 0 /\ \E z \in e..Len(line) : line[z] = "h_zu"
       THEN (CHOOSE z \in e..Len(line) :
               line[z] = "h_zu" /\ \A y \in e..(z - 1) : line[y] # "h_zu") + 1
       ELSE 0

\* lines 572-575: nextLine.replace(/.*(?:...)/, ""); the greedy .* takes the
\* last position at which the marker matches
AfterMarker(line) ==
  IF \E q \in 1..Len(line) : MarkerEndAt(line, q) > 0
  THEN LET q == CHOOSE q \in 1..Len(line) :
                  MarkerEndAt(line, q) > 0 /\ \A r \in (q + 1)..Len(line) : MarkerEndAt(line, r) = 0
       IN SubSeq(line, MarkerEndAt(line, q), Len(line))
  ELSE line

\* lines 601-613: the line is taken as a continuation of the title
IsTitleContinuation(line, b) ==
  /\ \/ /\ ~StartsWithChar(line, VoteSymbolChars)
        /\ ~StartsWithChar(line, {"shi", "gi", "yudane"})
        /\ Len(b.titleParts) > 0
     \/ Len(b.voteSymbols) = 0
  /\ Len(line) > 1
  /\ \E p \in 1..Len(line) : line[p] # "SP"
  /\ ~StartsWithChar(line, {"shi", "gi", "yudane", "O", "O2"})

RECURSIVE ScanBlock(_, _, _)

\* the scan that does not stop at a section caption
ScanBlock_PastCaption(lines, i, b) ==
  IF i >= Len(lines) THEN [b EXCEPT !.next = i]
  ELSE
    LET nextLine == Trim(lines[i + 1]) IN
    IF Len(nextLine) = 0 THEN ScanBlock(lines, i + 1, b)
    ELSE IF \/ BillMatch(nextLine).pos > 0
            \/ StopAtNameRegion(nextLine)
            \/ StopAtVerticalName(lines, i, nextLine)
    THEN [b EXCEPT !.next = i]
    ELSE IF IsSpeakerLine(lines, i, nextLine)
    THEN LET votesBeforeMarker == extractVoteSymbols(BeforeFirstGi(nextLine))
             res == IF Len(b.result) > 0 THEN b.result ELSE extractResult(nextLine)
         IN IF Len(votesBeforeMarker) > 0
            THEN ScanBlock(lines, i + 1,
                   [b EXCEPT !.speakerPosition = Len(b.voteSymbols) + Len(votesBeforeMarker),
                             !.voteSymbols = b.voteSymbols \o votesBeforeMarker
                                             \o extractVoteSymbols(AfterMarker(nextLine)),
                             !.result = res])
            ELSE ScanBlock(lines, i + 1, [b EXCEPT !.result = res])
    ELSE IF Len(extractVoteSymbols(nextLine)) > 0
    THEN ScanBlock(lines, i + 1,
           [b EXCEPT !.voteSymbols = b.voteSymbols \o extractVoteSymbols(nextLine),
                     !.result = IF Len(b.result) > 0 THEN b.result
                                ELSE extractResult(nextLine)])
    ELSE IF Len(extractResult(nextLine)) > 0
    THEN ScanBlock(lines, i + 1, [b EXCEPT !.result = extractResult(nextLine)])
    ELSE IF IsTitleContinuation(nextLine, b)
    THEN ScanBlock(lines, i + 1, [b EXCEPT !.titleParts = Append(b.titleParts, nextLine)])
    ELSE ScanBlock(lines, i + 1, b)

\* lines 527-621: the scan of the lines after the identifier line; i is the
\* 0-based index of the line looked at, b the block so far; the result
\* carries in next the index of the line at which the scan stopped
ScanBlock(lines, i, b) ==
  IF i >= Len(lines) THEN [b EXCEPT !.next = i]
  ELSE
    LET nextLine == Trim(lines[i + 1]) IN
    IF Len(nextLine) = 0 THEN ScanBlock(lines, i + 1, b)
    ELSE IF \/ BillMatch(nextLine).pos > 0
            \/ StopAtNameRegion(nextLine)
            \/ StopAtVerticalName(lines, i, nextLine)
            \/ StopAtCategory(nextLine)
    THEN [b EXCEPT !.next = i]
    ELSE IF IsSpeakerLine(lines, i, nextLine)
    THEN LET votesBeforeMarker == extractVoteSymbols(BeforeFirstGi(nextLine))
             res == IF Len(b.result) > 0 THEN b.result ELSE extractResult(nextLine)
         IN IF Len(votesBeforeMarker) > 0
            THEN ScanBlock(lines, i + 1,
                   [b EXCEPT !.speakerPosition = Len(b.voteSymbols) + Len(votesBeforeMarker),
                             !.voteSymbols = b.voteSymbols \o votesBeforeMarker
                                             \o extractVoteSymbols(AfterMarker(nextLine)),
                             !.result = res])
            ELSE ScanBlock(lines, i + 1, [b EXCEPT !.result = res])
    ELSE IF Len(extractVoteSymbols(nextLine)) > 0
    THEN ScanBlock(lines, i + 1,
           [b EXCEPT !.voteSymbols = b.voteSymbols \o extractVoteSymbols(nextLine),
                     !.result = IF Len(b.result) > 0 THEN b.result
                                ELSE extractResult(nextLine)])
    ELSE IF Len(extractResult(nextLine)) > 0
    THEN ScanBlock(lines, i + 1, [b EXCEPT !.result = extractResult(nextLine)])
    ELSE IF IsTitleContinuation(nextLine, b)
    THEN ScanBlock(lines, i + 1, [b EXCEPT !.titleParts = Append(b.titleParts, nextLine)])
    ELSE ScanBlock(lines, i + 1, b)

\* /^(市|議|委|○|×|〇|結|令和|平成|議員|議案番号)/, line 518
NotTitleStart(line) ==
  \/ StartsWithChar(line, {"shi", "gi", "yudane", "O", "X", "O2", "musubi"})
  \/ MatchAt(line, 1, <<"rei", "wa">>)
  \/ MatchAt(line, 1, <<"hei", "sei">>)

\* lines 477-523: the block begun by an identifier line (trimmed) with the
\* match m of billPattern in it
BlockOfIdentifierLine(line, m) ==
  LET billNumber == SubSeq(line, m.pos, m.pos + m.len - 1)
      afterBillNumber == SubSeq(line, m.pos + m.len, Len(line))
      voteSymbolsInLine == extractVoteSymbols(afterBillNumber)
      empty == [billNumber |-> billNumber, titleParts |-> << >>, voteSymbols |-> << >>,
                result |-> << >>, speakerPosition |-> -1, next |-> 0]
  IN IF Len(voteSymbolsInLine) > 0
     THEN LET firstSymbolIdx ==
                (CHOOSE p \in 1..Len(afterBillNumber) :
                   /\ afterBillNumber[p] \in VoteSymbolChars
                   /\ \A q \in 1..(p - 1) : afterBillNumber[q] \notin VoteSymbolChars) - 1
              titleText == Trim(SubSeq(afterBillNumber, 1, firstSymbolIdx))
          IN [empty EXCEPT
                !.titleParts = IF firstSymbolIdx > 0 /\ Len(titleText) > 0
                               THEN <<titleText>> ELSE << >>,
                !.voteSymbols = voteSymbolsInLine,
                !.result = extractResult(afterBillNumber)]
     ELSE LET titleText == Trim(afterBillNumber)
          IN [empty EXCEPT
                !.titleParts = IF Len(titleText) > 0 /\ ~NotTitleStart(titleText)
                               THEN <<titleText>> ELSE << >>]

\* lines 464-633: the first pass over the lines, i 0-based; only blocks with
\* vote symbols are kept (lines 623-632)
RECURSIVE ScanBills(_, _)
ScanBills(lines, i) ==
  IF i >= Len(lines) THEN << >>
  ELSE
    LET line == Trim(lines[i + 1])
        m == BillMatch(line)
    IN IF Len(line) = 0 \/ m.pos = 0 THEN ScanBills(lines, i + 1)
       ELSE LET b == ScanBlock(lines, i + 1, BlockOfIdentifierLine(line, m))
            IN (IF Len(b.voteSymbols) > 0 THEN <<b>> ELSE << >>)
               \o ScanBills(lines, b.next)

\* lines 640-665: speakerIndex, which the rest of the function never reads
SpeakerIndex(blocks, expectedVotes) ==
  IF \E k \in 1..Len(blocks) : blocks[k].speakerPosition >= 0
  THEN blocks[CHOOSE k \in 1..Len(blocks) :
         /\ blocks[k].speakerPosition >= 0
         /\ \A j \in 1..(k - 1) : blocks[j].speakerPosition < 0].speakerPosition
  ELSE IF 2 * Cardinality({k \in 1..Len(blocks) :
                             Len(blocks[k].voteSymbols) = expectedVotes})
            > Len(blocks)
  THEN -2
  ELSE -1

-----------------------------------------------------------------------------
(* findSpeakerFromVerticalText and parseSingleName, lines 803-969          *)

\* lines 940-969; chars are the one-character strings collected from the
\* lines; << >> stands for null
RECURSIVE SplitAtSpace(_, _, _, _)
SplitAtSpace(chars, familyPart, spaceSeen, givenPart) ==
  IF Len(chars) = 0 THEN [familyPart |-> familyPart, givenPart |-> givenPart]
  ELSE IF Head(chars) = "SP"
       THEN SplitAtSpace(Tail(chars), familyPart,
                         spaceSeen \/ Len(familyPart) > 0, givenPart)
       ELSE IF spaceSeen
            THEN SplitAtSpace(Tail(chars), familyPart, spaceSeen, Append(givenPart, Head(chars)))
            ELSE SplitAtSpace(Tail(chars), Append(familyPart, Head(chars)), spaceSeen, givenPart)

parseSingleName(chars) ==
  IF Len(chars) < 2 THEN << >>
  ELSE LET r == SplitAtSpace(chars, << >>, FALSE, << >>) IN
       IF Len(r.familyPart) > 0 /\ Len(r.givenPart) > 0
       THEN r.familyPart \o <<"SP">> \o r.givenPart
       ELSE << >>

\* the test applied to t = lines[k].trim() at lines 834, 849, 888, 917:
\* /^[一-鿿]$/.test(t) || t === "　"
IsNameCharLine(t) == (Len(t) = 1 /\ isCJK(t[1])) \/ t = <<"SP">>

\* lines 831-839 and 885-893: the run of name characters above line i
\* (0-based), read upwards from k down to lowest
RECURSIVE NameCharsAbove(_, _, _)
NameCharsAbove(lines, k, lowest) ==
  IF k < lowest THEN << >>
  ELSE LET t == Trim(lines[k + 1]) IN
       IF IsNameCharLine(t) THEN NameCharsAbove(lines, k - 1, lowest) \o t
       ELSE << >>

\* lines 842-854 and 910-922: the run of name characters from line k
\* (0-based) down to line limit - 1
RECURSIVE NameCharsBelow(_, _, _)
NameCharsBelow(lines, k, limit) ==
  IF k >= limit THEN << >>
  ELSE LET t == Trim(lines[k + 1]) IN
       IF IsNameCharLine(t) THEN t \o NameCharsBelow(lines, k + 1, limit)
       ELSE << >>

Max0(n) == IF n < 0 THEN 0 ELSE n
MinOf(a, b) == IF a < b THEN a ELSE b

\* lines 815-823: the marker characters on the lines i .. i+11 (0-based)
MarkerRunAt(lines, i) ==
  \A j \in 1..Len(SpeakerMarker) :
    LET line == Trim(lines[i + j]) IN
      line = <<SpeakerMarker[j]>> \/ Includes(line, <<SpeakerMarker[j]>>)

\* lines 814-869: the first marker run, and the members named next to it
SpeakerByMarkerRun(lines, nameSeq) ==
  LET starts == {i \in 0..(Len(lines) - Len(SpeakerMarker) - 1) : MarkerRunAt(lines, i)} IN
  IF starts = {} THEN << >>
  ELSE LET i == CHOOSE i \in starts : \A h \in starts : i <= h
           above == parseSingleName(NameCharsAbove(lines, i - 1, Max0(i - 20)))
           below == parseSingleName(NameCharsBelow(lines, i + Len(SpeakerMarker),
                      MinOf(Len(lines), i + Len(SpeakerMarker) + 20)))
       IN IF Len(above) > 0 /\ \E n \in 1..Len(nameSeq) : nameSeq[n] = above
          THEN above
          ELSE IF Len(below) > 0 /\ \E n \in 1..Len(nameSeq) : nameSeq[n] = below
          THEN below
          ELSE << >>

\* lines 876-882: the lines after line i joined, skipping lines that trim to
\* the empty string, until 6 have been taken or 20 lines looked at
RECURSIVE NextChars(_, _, _, _)
NextChars(lines, i, j, taken) ==
  IF j > 20 \/ i + j >= Len(lines) \/ taken >= 6 THEN << >>
  ELSE LET t == Trim(lines[i + j + 1]) IN
       IF t = <<"SP">> \/ Len(t) = 0 THEN NextChars(lines, i, j + 1, taken)
       ELSE t \o NextChars(lines, i, j + 1, taken + 1)

\* lines 902-909: the index after the first line "ず" below line i
MarkerEnd(lines, i) ==
  IF \E k \in (i + 1)..(Len(lines) - 1) : Trim(lines[k + 1]) = <<"h_zu">>
  THEN (CHOOSE k \in (i + 1)..(Len(lines) - 1) :
          /\ Trim(lines[k + 1]) = <<"h_zu">>
          /\ \A h \in (i + 1)..(k - 1) : Trim(lines[h + 1]) # <<"h_zu">>) + 1
  ELSE Len(lines)

\* lines 872-930 for one line i (0-based): the member found there, or << >>
SpeakerAtGi(lines, i, nameSeq) ==
  IF /\ Trim(lines[i + 1]) = <<"gi">>
     /\ MatchAt(NextChars(lines, i, 1, 0), 1, <<"chou", "h_no", "h_ta", "h_me", "sai", "ketsu">>)
  THEN LET above == parseSingleName(NameCharsAbove(lines, i - 1, Max0(i - 20)))
           markerEnd == MarkerEnd(lines, i)
           below == parseSingleName(NameCharsBelow(lines, markerEnd,
                      MinOf(Len(lines), markerEnd + 20)))
       IN IF Len(above) > 0 /\ \E n \in 1..Len(nameSeq) : nameSeq[n] = above
          THEN above
          ELSE IF Len(below) > 0 /\ \E n \in 1..Len(nameSeq) : nameSeq[n] = below
          THEN below
          ELSE << >>
  ELSE << >>

findSpeakerFromVerticalText(lines, nameSeq) ==
  LET first == SpeakerByMarkerRun(lines, nameSeq) IN
  IF Len(first) > 0 THEN first
  ELSE LET hits == {i \in 0..(Len(lines) - 1) : Len(SpeakerAtGi(lines, i, nameSeq)) > 0} IN
       IF hits = {} THEN << >>
       ELSE SpeakerAtGi(lines, CHOOSE i \in hits : \A h \in hits : i <= h, nameSeq)

-----------------------------------------------------------------------------
(* The record assembly of parseVotingText, lines 731-793                   *)

\* lines 740-750: the speaker's entry is 議長, every other member takes the
\* next vote symbol while there is one
RECURSIVE VotesWithSpeaker(_, _, _, _)
VotesWithSpeaker(nameSeq, voteSymbols, speaker, voteIdx) ==
  IF Len(nameSeq) = 0 THEN << >>
  ELSE IF Head(nameSeq) = speaker
       THEN <<[memberName |-> Head(nameSeq), vote |-> "gichou"]>>
            \o VotesWithSpeaker(Tail(nameSeq), voteSymbols, speaker, voteIdx)
       ELSE IF voteIdx < Len(voteSymbols)
            THEN <<[memberName |-> Head(nameSeq), vote |-> voteSymbols[voteIdx + 1]]>>
                 \o VotesWithSpeaker(Tail(nameSeq), voteSymbols, speaker, voteIdx + 1)
            ELSE VotesWithSpeaker(Tail(nameSeq), voteSymbols, speaker, voteIdx)

\* the n vote symbols given to the last n members
VotesInOrder_FromEnd(nameSeq, voteSymbols) ==
  [j \in 1..MinOf(Len(nameSeq), Len(voteSymbols)) |->
     [memberName |-> nameSeq[Len(nameSeq) - MinOf(Len(nameSeq), Len(voteSymbols)) + j],
      vote |-> voteSymbols[j]]]

\* lines 753-758 and 770-776: the first n members take the n vote symbols
VotesInOrder(nameSeq, voteSymbols) ==
  [j \in 1..MinOf(Len(nameSeq), Len(voteSymbols)) |->
     [memberName |-> nameSeq[j], vote |-> voteSymbols[j]]]

\* a padded or cut list built for a block of any length
VotesOfBlock_ForceFit(voteSymbols, nameSeq, speaker) ==
  [kept |-> TRUE, votes |-> VotesInOrder(nameSeq, voteSymbols)]

\* lines 738-783: the votes built for one block; kept is FALSE when the
\* block is skipped for a count mismatch
VotesOfBlock(voteSymbols, nameSeq, speaker) ==
  LET expectedVotes == Len(nameSeq) - 1 IN
  IF Len(voteSymbols) = expectedVotes /\ Len(speaker) > 0
  THEN [kept |-> TRUE, votes |-> VotesWithSpeaker(nameSeq, voteSymbols, speaker, 0)]
  ELSE IF Len(voteSymbols) = Len(nameSeq)
  THEN [kept |-> TRUE, votes |-> VotesInOrder(nameSeq, voteSymbols)]
  ELSE IF Len(voteSymbols) = expectedVotes /\ Len(speaker) = 0
  THEN [kept |-> TRUE, votes |-> VotesInOrder(nameSeq, voteSymbols)]
  ELSE [kept |-> FALSE, votes |-> << >>]

RECURSIVE Join(_)
Join(parts) == IF Len(parts) = 0 THEN << >> ELSE Head(parts) \o Join(Tail(parts))

\* line 733: block.titleParts.join("").replace(/\s+/g, "")
BillTitle(titleParts) == SelectSeq(Join(titleParts), LAMBDA c : c \notin WhiteSpace)

\* lines 785-792: the VoteRecord of a block (interface VoteRecord, lines 22-30)
RecordOfBlock(block, votes) ==
  [billNumber |-> block.billNumber, billTitle |-> BillTitle(block.titleParts),
   result |-> block.result, votes |-> votes]

\* a count mismatch ends the document: nothing is returned
RecordsAfterBlock_GiveUp(recs, block, nameSeq, speaker) ==
  LET v == VotesOfBlock(block.voteSymbols, nameSeq, speaker) IN
  IF v.kept /\ Len(v.votes) > 0 THEN Append(recs, RecordOfBlock(block, v.votes)) ELSE << >>

\* lines 731-793 for one block: the records after it
RecordsAfterBlock(recs, block, nameSeq, speaker) ==
  LET v == VotesOfBlock(block.voteSymbols, nameSeq, speaker) IN
  IF v.kept /\ Len(v.votes) > 0 THEN Append(recs, RecordOfBlock(block, v.votes)) ELSE recs

RECURSIVE BuildRecords(_, _, _, _, _)
BuildRecords(recs, blocks, k, nameSeq, speaker) ==
  IF k > Len(blocks) THEN recs
  ELSE BuildRecords(RecordsAfterBlock(recs, blocks[k], nameSeq, speaker),
                    blocks, k + 1, nameSeq, speaker)

\* parseVotingText, lines 418-796, as one function of the text
parseVotingText(lines) ==
  LET normalizedText == toHalf(lines)
      nameSeq == extractMemberNames(normalizedText)
  IN IF Len(nameSeq) = 0 THEN << >>
     ELSE BuildRecords(<< >>, ScanBills(normalizedText, 0), 1, nameSeq,
                       findSpeakerFromVerticalText(lines, nameSeq))

-----------------------------------------------------------------------------
(* Inputs of the name decoder                                              *)

MaxSeqLen == 5       \* longest arbitrary character sequence
MaxMembers == 2      \* longest member list rendered into a name sequence

\* characters of the arbitrary sequences: the separator, the characters of
\* one 3-character family (each an unlisted kanji on its own), the
\* 1-character family
SeqChars == {"SP", "ku", "ho", "ta", "tsuji"}

RECURSIVE SeqsUpTo(_, _)
SeqsUpTo(S, n) ==
  IF n = 0 THEN { << >> }
  ELSE LET shorter == SeqsUpTo(S, n - 1)
       IN shorter \cup { Append(s, c) : s \in {t \in shorter : Len(t) = n - 1}, c \in S }

\* members a name block is rendered from: a 3-, 1- and 2-character family of
\* the dictionary, a 2-character family that is not in the dictionary
FamilyPool == { <<"ku", "ho", "ta">>, <<"tsuji">>, <<"ii", "shima">>, <<"taka", "hashi">> }
GivenPool == { <<"hiro", "ichi">>, <<"makoto">> }
MemberPool == { [family |-> f, given |-> g] : f \in FamilyPool, g \in GivenPool }

FullName(m) == m.family \o <<"SP">> \o m.given

\* The vertical name block of a member list.  between: a separator also
\* stands between two members; drop3: the separator after a 3-character
\* family is missing (the rendering artifact of narrow columns).
RECURSIVE RenderMembers(_, _, _)
RenderMembers(ms, between, drop3) ==
  IF Len(ms) = 0 THEN << >>
  ELSE LET m == Head(ms)
           one == IF drop3 /\ Len(m.family) = 3 THEN m.family \o m.given
                  ELSE FullName(m)
       IN one \o (IF between /\ Len(ms) > 1 THEN <<"SP">> ELSE << >>)
              \o RenderMembers(Tail(ms), between, drop3)

MemberLists == SeqsUpTo(MemberPool, MaxMembers) \ { << >> }

MaxUnseparated == 3  \* longest member list rendered with separators missing

\* The vertical name block of a member list of which only the first and the
\* last member kept the separator between family and given name (the
\* rendering artifact of narrow columns, on any family).
RenderUnseparated(ms) ==
  LET RECURSIVE Inner(_)
      Inner(k) == IF k >= Len(ms) THEN << >>
                  ELSE ms[k].family \o ms[k].given \o Inner(k + 1)
  IN FullName(ms[1]) \o Inner(2) \o FullName(ms[Len(ms)])

UnseparatedLists == { ms \in SeqsUpTo(MemberPool, MaxUnseparated) : Len(ms) >= 3 }

NameSources ==
  { [kind |-> "chars", chars |-> s] : s \in SeqsUpTo(SeqChars, MaxSeqLen) }
  \cup { [kind |-> "members", ms |-> ms, between |-> b, drop3 |-> d] :
           ms \in MemberLists, b \in BOOLEAN, d \in BOOLEAN }
  \cup { [kind |-> "unseparated", ms |-> ms] : ms \in UnseparatedLists }

SourceChars(src) ==
  CASE src.kind = "chars" -> src.chars
    [] src.kind = "members" -> RenderMembers(src.ms, src.between, src.drop3)
    [] OTHER -> RenderUnseparated(src.ms)

\* the variables of parseVotingText while it is not running
ParseIdle ==
  /\ docSrc = [kind |-> "none"]
  /\ text = << >>
  /\ memberNames = << >>
  /\ billBlocks = << >>
  /\ speakerMemberName = << >>
  /\ blockIdx = 0
  /\ records = << >>
  /\ ppc = "idle"

\* the variables of main while it is not running
MainIdle ==
  /\ docs = << >>
  /\ files = << >>
  /\ run = 0
  /\ entryIdx = 0
  /\ successCount = 0
  /\ skipCount = 0
  /\ errorCount = 0
  /\ fetched = << >>
  /\ delays = 0
  /\ lastLog = ""
  /\ mpc = "idle"

\* the variables of groupIntoRows while it is not running
RowsIdle ==
  /\ items = << >>
  /\ itemRows = << >>
  /\ rpc = "idle"

\* the variables of parsePdfWithCoordinates while it is not running
QuestionsIdle ==
  /\ qSrc = [kind |-> "none"]
  /\ pagesJson = << >>
  /\ pageIdx = 0
  /\ pageRows = << >>
  /\ rowIdx = 0
  /\ members = << >>
  /\ currentMember = 0
  /\ currentItem = 0
  /\ orderCounter = 0
  /\ qpc = "idle"

\* the variables of the updates scraper while it is not running
UpdatesIdle ==
  /\ updatesFile = [exists |-> FALSE]
  /\ updateRuns = 0

\* the variables of extractNameCharSequence while it is not running
CharsIdle ==
  /\ charSrc = [kind |-> "none"]
  /\ nameText = << >>
  /\ nameChars = << >>
  /\ cpc = "idle"

RestIdle == RowsIdle /\ QuestionsIdle /\ UpdatesIdle /\ CharsIdle

\* the variables of the name decoder while it is not running
NamesIdle ==
  /\ nameSrc = [kind |-> "none"]
  /\ charStr = << >>
  /\ names = << >>
  /\ npc = "idle"

-----------------------------------------------------------------------------
(* Specification of the name decoder: one call of splitNamesFromSequence   *)

NamesInit ==
  /\ nameSrc \in NameSources
  /\ charStr = SourceChars(nameSrc)
  /\ names = << >>
  /\ npc = "start"
  /\ ParseIdle
  /\ MainIdle
  /\ RestIdle

SplitNames ==
  /\ npc = "start"
  /\ names' = splitNamesFromSequence(charStr)
  /\ npc' = "done"
  /\ UNCHANGED <<nameSrc, charStr>>
  /\ UNCHANGED parseVars
  /\ UNCHANGED mainVars
  /\ UNCHANGED restVars

NamesNext == SplitNames

SpecNames == NamesInit /\ [][NamesNext]_vars

-----------------------------------------------------------------------------
(* Documents: the text of a roll-call PDF                                  *)

MaxDocMembers == 2   \* members in the name block of a document
MaxBills == 2        \* bill blocks of a document
MaxVotes == 3        \* vote symbols of a bill block

DocMemberPool ==
  { [family |-> <<"tsuji">>, given |-> <<"makoto">>],
    [family |-> <<"ii", "shima">>, given |-> <<"hiro", "ichi">>] }

\* the vote symbols of a bill: n symbols, alternating, starting with either
VoteRow(n, first) ==
  [k \in 1..n |-> IF (k % 2 = 1) = (first = "O") THEN "O" ELSE "X"]

VoteRows == { VoteRow(n, "O") : n \in 0..MaxVotes }

\* one character per line
Vertical(chars) == [k \in 1..Len(chars) |-> <<chars[k]>>]

\* The name block: the members one after the other, one character per line,
\* with the speaker marker (one character per line) right after the name of
\* member markerAt.  gap: an empty line stands before every member, so that
\* the run of one-character lines above the marker is the speaker's name
\* alone.
RECURSIVE NameBlock(_, _, _, _)
NameBlock(ms, k, markerAt, gap) ==
  IF k > Len(ms) THEN << >>
  ELSE (IF gap THEN << << >> >> ELSE << >>)
       \o Vertical(FullName(ms[k]))
       \o (IF k = markerAt THEN Vertical(SpeakerMarker) ELSE << >>)
       \o NameBlock(ms, k + 1, markerAt, gap)

\* symbols separated by ASCII spaces
RECURSIVE Spaced(_)
Spaced(row) ==
  IF Len(row) = 0 THEN << >>
  ELSE IF Len(row) = 1 THEN row
  ELSE <<Head(row), " ">> \o Spaced(Tail(row))

GenanKaketsu == <<"hara", "an", "beshi", "ketsu">>

\* Bill j.  Odd bills in the newer layout (identifier and title on one line,
\* spaced symbols and outcome on the next), even bills in the older layout
\* (identifier, symbols and outcome on lines of their own, full-width
\* number).
BillLines(j, row) ==
  IF j % 2 = 1
  THEN << <<"gi", "an", "dai", "1", "gou", " ", "kudari", "tatoe">>,
          Spaced(row) \o <<" ">> \o GenanKaketsu >>
  ELSE << <<"gi", "an", "dai", "F2", "gou">>, row, GenanKaketsu >>

RECURSIVE BillsBlock(_, _)
BillsBlock(rows, j) ==
  IF j > Len(rows) THEN << >>
  ELSE BillLines(j, rows[j]) \o BillsBlock(rows, j + 1)

MaxScanRows == 3     \* rows after the identifier line of a scanned bill

\* the rows that may follow the identifier line of bill 1: a vote row with
\* an outcome, a vote row without one, a vote row with title text in front,
\* an outcome on a row of its own, and
\* three rows that end the block, each with a vote symbol on it: the
\* identifier of bill 2, a section caption, the header of the name block
ScanRow(tag) ==
  CASE tag = "votes"   -> <<"O", " ", "X", " ">> \o GenanKaketsu
    [] tag = "symbol"  -> <<"X">>
    [] tag = "titled"  -> <<"tatoe", " ", "O">>
    [] tag = "outcome" -> <<"osamu", "tadashi", "beshi", "ketsu">>
    [] tag = "bill"    -> <<"gi", "an", "dai", "F2", "gou", " ", "O">>
    [] tag = "caption" -> <<"shi", "chou", "tei", "shutsu", " ", "O">>
    [] OTHER           -> NameHeader \o <<" ", "O">>

ScanTags == {"votes", "symbol", "titled", "outcome", "bill", "caption", "header"}

\* the identifier line of bill 1, with title text and a vote symbol on it or
\* without
ScanIdentifier(inline) ==
  <<"gi", "an", "dai", "1", "gou">>
    \o (IF inline THEN <<" ", "kudari", " ", "O">> ELSE << >>)

\* the phrases that may stand after the vote symbols of a bill: the listed
\* outcomes one by one (U+3000 is "SP"), a phrase that is not listed
\* (U+7D99 U+7D9A U+5BE9 U+67FB), and nothing
OutcomePhrases ==
  { <<"hara", "an", "beshi", "ketsu">>, <<"osamu", "tadashi", "beshi", "ketsu">>,
    <<"hara", "an", "ina", "ketsu">>, <<"dou", "kokoro">>, <<"dou", "SP", "kokoro">>,
    <<"dou", "SP", "SP", "kokoro">>, <<"sai", "taku">>, <<"fu", "sai", "taku">>,
    IgiNai \o <<"mawaru", "kotae">>,
    <<"kei", "zoku", "shin", "sa">>, << >> }

DocText(src) ==
  IF src.kind = "result"
  THEN <<NameHeader>> \o NameBlock(src.ms, 1, 0, FALSE)
       \o <<ScanIdentifier(FALSE), <<"O", " ", "X", " ">> \o src.phrase>>
  ELSE IF src.kind = "scan"
  THEN <<NameHeader>> \o NameBlock(src.ms, 1, 0, FALSE)
       \o <<ScanIdentifier(src.inline)>>
       \o [k \in 1..Len(src.body) |-> ScanRow(src.body[k])]
  ELSE BillsBlock(src.bills, 1)
       \o (IF src.header THEN <<NameHeader>> ELSE << >>)
       \o NameBlock(src.ms, 1, src.markerAt, src.gap)

ScanMembers ==
  << [family |-> <<"tsuji">>, given |-> <<"makoto">>],
     [family |-> <<"ii", "shima">>, given |-> <<"hiro", "ichi">>] >>

\* documents for the scan of one bill: two members, the name block first
ScanSources ==
  { [kind |-> "scan", ms |-> ScanMembers, markerAt |-> 0,
     gap |-> FALSE, header |-> TRUE, bills |-> << >>, inline |-> inl, body |-> rows] :
      inl \in BOOLEAN, rows \in SeqsUpTo(ScanTags, MaxScanRows) }

\* documents of one bill with one vote row and a phrase after its symbols
ResultSources ==
  { [kind |-> "result", ms |-> ScanMembers, markerAt |-> 0,
     gap |-> FALSE, header |-> TRUE, bills |-> << >>, phrase |-> p] :
      p \in OutcomePhrases }

DocSources ==
  { src \in
      { [kind |-> "doc", ms |-> ms, markerAt |-> k, gap |-> g, header |-> h,
         bills |-> rows] :
          ms \in SeqsUpTo(DocMemberPool, MaxDocMembers),
          k \in 0..MaxDocMembers, g \in BOOLEAN, h \in BOOLEAN,
          rows \in SeqsUpTo(VoteRows, MaxBills) } :
      (src.gap => src.header) /\ src.markerAt <= Len(src.ms) }

-----------------------------------------------------------------------------
(* Specification of parseVotingText: one call, in its steps                *)

ParseInit ==
  /\ docSrc \in DocSources \union ScanSources \union ResultSources
  /\ text = DocText(docSrc)
  /\ memberNames = << >>
  /\ billBlocks = << >>
  /\ speakerMemberName = << >>
  /\ blockIdx = 0
  /\ records = << >>
  /\ ppc = "start"
  /\ NamesIdle
  /\ MainIdle
  /\ RestIdle

\* lines 419-428: no member names, return []
ExtractMembers ==
  /\ ppc = "start"
  /\ memberNames' = extractMemberNames(toHalf(text))
  /\ ppc' = IF Len(memberNames') = 0 THEN "done" ELSE "scan"
  /\ UNCHANGED <<docSrc, text, billBlocks, speakerMemberName, blockIdx, records>>
  /\ UNCHANGED namesVars
  /\ UNCHANGED mainVars
  /\ UNCHANGED restVars

\* lines 442-633
ScanBillBlocks ==
  /\ ppc = "scan"
  /\ billBlocks' = ScanBills(toHalf(text), 0)
  /\ ppc' = "speaker"
  /\ UNCHANGED <<docSrc, text, memberNames, speakerMemberName, blockIdx, records>>
  /\ UNCHANGED namesVars
  /\ UNCHANGED mainVars
  /\ UNCHANGED restVars

\* lines 724-729
FindSpeaker ==
  /\ ppc = "speaker"
  /\ speakerMemberName' = findSpeakerFromVerticalText(text, memberNames)
  /\ blockIdx' = 1
  /\ ppc' = "build"
  /\ UNCHANGED <<docSrc, text, memberNames, billBlocks, records>>
  /\ UNCHANGED namesVars
  /\ UNCHANGED mainVars
  /\ UNCHANGED restVars

\* lines 731-793, one block
BuildRecord ==
  /\ ppc = "build"
  /\ blockIdx <= Len(billBlocks)
  /\ records' = RecordsAfterBlock(records, billBlocks[blockIdx], memberNames,
                                  speakerMemberName)
  /\ blockIdx' = blockIdx + 1
  /\ UNCHANGED <<docSrc, text, memberNames, billBlocks, speakerMemberName, ppc>>
  /\ UNCHANGED namesVars
  /\ UNCHANGED mainVars
  /\ UNCHANGED restVars

\* line 795
ReturnRecords ==
  /\ ppc = "build"
  /\ blockIdx > Len(billBlocks)
  /\ ppc' = "done"
  /\ UNCHANGED <<docSrc, text, memberNames, billBlocks, speakerMemberName, blockIdx, records>>
  /\ UNCHANGED namesVars
  /\ UNCHANGED mainVars
  /\ UNCHANGED restVars

ParseNext ==
  \/ ExtractMembers
  \/ ScanBillBlocks
  \/ FindSpeaker
  \/ BuildRecord
  \/ ReturnRecords

SpecParse == ParseInit /\ [][ParseNext]_vars

-----------------------------------------------------------------------------
(* Specification of main: successive runs of the voting scraper over the   *)
(* same sessions and the same PDFs                                         *)

MaxRuns == 3         \* runs of main

\* lines 974-990: the slugs of the sessions that have a votingRecordPdfUrl
sessionsWithPdf == <<"s1", "s2">>

Slugs == {sessionsWithPdf[k] : k \in 1..Len(sessionsWithPdf)}

Tsuji == [family |-> <<"tsuji">>, given |-> <<"makoto">>]
Iijima == [family |-> <<"ii", "shima">>, given |-> <<"hiro", "ichi">>]

Doc(ms, markerAt, header, rows) ==
  [kind |-> "doc", ms |-> ms, markerAt |-> markerAt, gap |-> FALSE,
   header |-> header, bills |-> rows]

\* The PDFs a session may have: no text at all (an image-only PDF), bills
\* but no name header, a name header with no name under it, two members and
\* a bill of two symbols, two members with the marker and bills of one and
\* two symbols, two members and a bill of three symbols.
MainDocs ==
  { Doc(<< >>, 0, FALSE, << >>),
    Doc(<<Tsuji, Iijima>>, 0, FALSE, <<VoteRow(2, "O")>>),
    Doc(<< >>, 0, TRUE, <<VoteRow(2, "O")>>),
    Doc(<<Tsuji, Iijima>>, 0, TRUE, <<VoteRow(2, "O")>>),
    Doc(<<Tsuji, Iijima>>, 2, TRUE, <<VoteRow(1, "O"), VoteRow(2, "X")>>),
    Doc(<<Tsuji, Iijima>>, 0, TRUE, <<VoteRow(3, "O")>>) }

\* pdfData.text of a session
PdfText(slug) == DocText(docs[slug])

\* no file of that name in OUTPUT_DIR
NoFile == [exists |-> FALSE]

ShouldSkip_IfExists(file) == file.exists

\* lines 1003-1010: the file exists and holds at least one record
ShouldSkip(file) == file.exists /\ Len(file.records) > 0

VotingData_Stamped(slug, recs, now) ==
  [exists |-> TRUE, sessionSlug |-> slug, scrapedAt |-> now,
   records |-> [k \in 1..Len(recs) |-> [recs[k] EXCEPT !.billTitle = <<now>>]]]

\* lines 1036-1049: the file written for a session
VotingData(slug, recs, now) ==
  [exists |-> TRUE, sessionSlug |-> slug, scrapedAt |-> now, records |-> recs]

Entry == sessionsWithPdf[entryIdx]

InLoop == mpc = "loop" /\ entryIdx <= Len(sessionsWithPdf)

MainInit ==
  /\ docs \in [Slugs -> MainDocs]
  /\ files = [slug \in Slugs |-> NoFile]
  /\ run = 1
  /\ entryIdx = 1
  /\ successCount = 0
  /\ skipCount = 0
  /\ errorCount = 0
  /\ fetched = [slug \in Slugs |-> 0]
  /\ delays = 0
  /\ lastLog = "Found"
  /\ mpc = "loop"
  /\ NamesIdle
  /\ ParseIdle
  /\ RestIdle

\* lines 1003-1010
SkipEntry ==
  /\ InLoop
  /\ ShouldSkip(files[Entry])
  /\ skipCount' = skipCount + 1
  /\ lastLog' = "Skipping"
  /\ entryIdx' = entryIdx + 1
  /\ UNCHANGED <<docs, files, run, successCount, errorCount, fetched, delays, mpc>>
  /\ UNCHANGED <<namesVars, parseVars>>
  /\ UNCHANGED restVars

\* a download failure that ends the loop
DownloadError_Stops ==
  /\ InLoop
  /\ ~ShouldSkip(files[Entry])
  /\ delays' = delays + 1
  /\ fetched' = [fetched EXCEPT ![Entry] = @ + 1]
  /\ errorCount' = errorCount + 1
  /\ lastLog' = "Error downloading PDF"
  /\ entryIdx' = Len(sessionsWithPdf) + 1
  /\ UNCHANGED <<docs, files, run, successCount, skipCount, mpc>>
  /\ UNCHANGED <<namesVars, parseVars>>
  /\ UNCHANGED restVars

\* lines 1012-1022: sleep(1000), then fetchPdf throws
DownloadError ==
  /\ InLoop
  /\ ~ShouldSkip(files[Entry])
  /\ delays' = delays + 1
  /\ fetched' = [fetched EXCEPT ![Entry] = @ + 1]
  /\ errorCount' = errorCount + 1
  /\ lastLog' = "Error downloading PDF"
  /\ entryIdx' = entryIdx + 1
  /\ UNCHANGED <<docs, files, run, successCount, skipCount, mpc>>
  /\ UNCHANGED <<namesVars, parseVars>>
  /\ UNCHANGED restVars

\* lines 1012-1032: sleep(1000), then the PDF arrives, pdfParse throws
PdfParseError ==
  /\ InLoop
  /\ ~ShouldSkip(files[Entry])
  /\ delays' = delays + 1
  /\ fetched' = [fetched EXCEPT ![Entry] = @ + 1]
  /\ errorCount' = errorCount + 1
  /\ lastLog' = "Error parsing PDF"
  /\ entryIdx' = entryIdx + 1
  /\ UNCHANGED <<docs, files, run, successCount, skipCount, mpc>>
  /\ UNCHANGED <<namesVars, parseVars>>
  /\ UNCHANGED restVars

\* lines 1012-1051: sleep(1000), then the PDF arrives and has a text; the
\* records are written
SaveRecords ==
  /\ InLoop
  /\ ~ShouldSkip(files[Entry])
  /\ delays' = delays + 1
  /\ fetched' = [fetched EXCEPT ![Entry] = @ + 1]
  /\ files' = [files EXCEPT
                 ![Entry] = VotingData(Entry, parseVotingText(PdfText(Entry)), run)]
  /\ successCount' = successCount + 1
  /\ lastLog' = "records saved"
  /\ entryIdx' = entryIdx + 1
  /\ UNCHANGED <<docs, run, skipCount, errorCount, mpc>>
  /\ UNCHANGED <<namesVars, parseVars>>
  /\ UNCHANGED restVars

\* lines 1054-1057
Done ==
  /\ mpc = "loop"
  /\ entryIdx > Len(sessionsWithPdf)
  /\ lastLog' = "Done"
  /\ mpc' = "exit"
  /\ UNCHANGED <<docs, files, run, entryIdx, successCount, skipCount, errorCount, fetched,
                 delays>>
  /\ UNCHANGED <<namesVars, parseVars>>
  /\ UNCHANGED restVars

\* lines 971-999: the scraper is started again; OUTPUT_DIR is as it was left
StartRun ==
  /\ mpc = "exit"
  /\ run < MaxRuns
  /\ run' = run + 1
  /\ entryIdx' = 1
  /\ successCount' = 0
  /\ skipCount' = 0
  /\ errorCount' = 0
  /\ lastLog' = "Found"
  /\ mpc' = "loop"
  /\ UNCHANGED <<docs, files, fetched, delays>>
  /\ UNCHANGED <<namesVars, parseVars>>
  /\ UNCHANGED restVars

Next ==
  \/ SkipEntry
  \/ DownloadError
  \/ PdfParseError
  \/ SaveRecords
  \/ Done
  \/ StartRun

Spec == MainInit /\ [][Next]_vars

-----------------------------------------------------------------------------
(* groupIntoRows, part_005:257-284                                         *)

MaxItems == 3        \* text items handed to groupIntoRows

Abs(n) == IF n < 0 THEN 0 - n ELSE n

\* the comparator of line 261: (a, b) => b.y - a.y || a.x - b.x
CompareYX(a, b) == IF b.y - a.y # 0 THEN b.y - a.y ELSE a.x - b.x

\* Array.prototype.sort is stable: an item goes behind the items it does not
\* precede
RECURSIVE InsertByYX(_, _)
InsertByYX(sorted, item) ==
  IF Len(sorted) = 0 THEN <<item>>
  ELSE IF CompareYX(item, Head(sorted)) < 0 THEN <<item>> \o sorted
  ELSE <<Head(sorted)>> \o InsertByYX(Tail(sorted), item)

RECURSIVE SortByYX(_)
SortByYX(list) ==
  IF Len(list) = 0 THEN << >>
  ELSE InsertByYX(SortByYX(SubSeq(list, 1, Len(list) - 1)), list[Len(list)])

\* lines 274 and 280: currentRow.sort((a, b) => a.x - b.x)
RECURSIVE InsertByX(_, _)
InsertByX(sorted, item) ==
  IF Len(sorted) = 0 THEN <<item>>
  ELSE IF item.x - Head(sorted).x < 0 THEN <<item>> \o sorted
  ELSE <<Head(sorted)>> \o InsertByX(Tail(sorted), item)

RECURSIVE SortByX(_)
SortByX(list) ==
  IF Len(list) = 0 THEN << >>
  ELSE InsertByX(SortByX(SubSeq(list, 1, Len(list) - 1)), list[Len(list)])

RECURSIVE RowsFrom(_, _, _, _)

\* the walk with a reference that moves with every item taken into the row
RowsFrom_Chained(sorted, i, currentRow, currentY) ==
  IF i >= Len(sorted) THEN <<SortByX(currentRow)>>
  ELSE LET item == sorted[i + 1] IN
       IF Abs(item.y - currentY) <= 5
       THEN RowsFrom(sorted, i + 1, Append(currentRow, item), item.y)
       ELSE <<SortByX(currentRow)>> \o RowsFrom(sorted, i + 1, <<item>>, item.y)

\* lines 267-281: the walk over the sorted items from index i (0-based)
RowsFrom(sorted, i, currentRow, currentY) ==
  IF i >= Len(sorted) THEN <<SortByX(currentRow)>>
  ELSE LET item == sorted[i + 1] IN
       IF Abs(item.y - currentY) <= 5
       THEN RowsFrom(sorted, i + 1, Append(currentRow, item), currentY)
       ELSE <<SortByX(currentRow)>> \o RowsFrom(sorted, i + 1, <<item>>, item.y)

groupIntoRows(list) ==
  IF Len(list) = 0 THEN << >>
  ELSE LET sorted == SortByYX(list)
       IN RowsFrom(sorted, 1, <<sorted[1]>>, sorted[1].y)

\* the inputs of groupIntoRows: items on a small grid of positions, with
\* vertical distances below, at and above the tolerance of line 269
ItemYs == {100, 104, 108, 114}
ItemXs == {50, 80}
ItemPool == [text : {<<"A">>, <<"B">>}, x : ItemXs, y : ItemYs]

RECURSIVE ItemListsUpTo(_)
ItemListsUpTo(n) ==
  IF n = 0 THEN {<< >>}
  ELSE LET shorter == ItemListsUpTo(n - 1)
       IN shorter \union { Append(l, it) : l \in {k \in shorter : Len(k) = n - 1},
                                            it \in ItemPool }

ItemLists == ItemListsUpTo(MaxItems)

RowsInit ==
  /\ items \in ItemLists
  /\ itemRows = << >>
  /\ rpc = "start"
  /\ NamesIdle
  /\ ParseIdle
  /\ MainIdle
  /\ QuestionsIdle
  /\ UpdatesIdle
  /\ CharsIdle

GroupRows ==
  /\ rpc = "start"
  /\ itemRows' = groupIntoRows(items)
  /\ rpc' = "done"
  /\ UNCHANGED items
  /\ UNCHANGED <<namesVars, parseVars, mainVars, questionVars, updatesVars, charsVars>>

RowsNext == GroupRows

SpecRows == RowsInit /\ [][RowsNext]_vars

-----------------------------------------------------------------------------
(* parsePdfWithCoordinates, part_005:286-451                               *)
(* further characters: "ban" is U+756A, "nakaguro" is U+30FB               *)

\* classifyColumn, lines 297-302
classifyColumn(x) ==
  IF x < 75 THEN "order"
  ELSE IF x < 190 THEN "item_title"
  ELSE IF x < 480 THEN "detail"
  ELSE "respondent"

\* parseRow, lines 311-334: the trimmed texts of a column, joined as they come
RECURSIVE parseRow(_)
parseRow(rowItems) ==
  IF Len(rowItems) = 0
  THEN [order |-> << >>, itemTitle |-> << >>, detail |-> << >>, respondent |-> << >>]
  ELSE LET row  == parseRow(SubSeq(rowItems, 1, Len(rowItems) - 1))
           item == rowItems[Len(rowItems)]
           col  == classifyColumn(item.x)
           txt  == Trim(item.text)
       IN CASE col = "order"      -> [row EXCEPT !.order = @ \o txt]
            [] col = "item_title" -> [row EXCEPT !.itemTitle = @ \o txt]
            [] col = "detail"     -> [row EXCEPT !.detail = @ \o txt]
            [] OTHER              -> [row EXCEPT !.respondent = @ \o txt]

\* the phrases of isHeaderRow, lines 343-350
IchiranHyou == <<"ichi", "han", "shitsu", "mon", "tsuu", "koku", "ichi", "ran", "hyou">>
MochiJikan == <<"gi", "in", "1", "nin", "h_no", "mo", "h_chi", "ji", "kan">>
MochiJikanFull == <<"gi", "in", "F1", "nin", "h_no", "mo", "h_chi", "ji", "kan">>
ShitsumonTouben == <<"shitsu", "mon", "nakaguro", "tou", "ben", "h_wa">>
GisekiBangou == <<"gi", "seki", "ban", "gou">>
ShitsumonKoumoku == <<"shitsu", "mon", "kou", "moku">>
HeaderWords ==
  { <<"tou", "ben", "h_wo">>, <<"moto", "h_me", "h_ru", "mono">>, <<"jun">>, <<"jo">> }

\* /^件\s+名$/
IsKenMei(t) ==
  /\ Len(t) >= 3
  /\ t[1] = "ken"
  /\ t[Len(t)] = "mei"
  /\ \A p \in 2..(Len(t) - 1) : t[p] \in WhiteSpace

\* isHeaderRow, lines 340-352
isHeaderRow(row) ==
  LET all == Trim(row.order \o row.itemTitle \o row.detail \o row.respondent) IN
  \/ Len(all) = 0
  \/ Includes(all, IchiranHyou)
  \/ Includes(all, MochiJikan)
  \/ Includes(all, MochiJikanFull)
  \/ Includes(all, ShitsumonTouben)
  \/ MatchAt(row.itemTitle, 1, GisekiBangou)
  \/ MatchAt(row.detail, 1, ShitsumonKoumoku)
  \/ IsKenMei(Trim(row.itemTitle))
  \/ all \in HeaderWords
  \/ IsKenMei(all)

\* MEMBER_NAME_RE, line 337: /^(\d+)番\s*(.+)/; the second group, << >> when
\* the text does not match
MemberMatch(t) ==
  LET d == DigitRun(t, 1)
      q == SkipSpace(t, d + 2)
  IN IF d = 0 \/ Len(t) < d + 2 \/ t[d + 1] # "ban" THEN << >>
     ELSE IF q <= Len(t) THEN SubSeq(t, q, Len(t))
     ELSE <<t[Len(t)]>>

\* .replace(/\s+/g, ""), line 386
RemoveSpaces(t) == SelectSeq(t, LAMBDA c : c \notin WhiteSpace)

\* /^(\d+)\s*(.*)/, lines 397 and 398
NumMatches(t) == DigitRun(t, 1) > 0

NumText(t) == SubSeq(t, SkipSpace(t, DigitRun(t, 1) + 1), Len(t))

NewItem(title, details) == [title |-> title, details |-> details]

\* currentMember.items.push(item)
PushItem(ms, m, item) == [ms EXCEPT ![m].items = Append(@, item)]

\* the item-title column with a blank put in front of a continuation
AfterTitle_Spaced(ms, m, cur, t) ==
  IF Len(t) > 0 /\ NumMatches(t)
  THEN IF Len(NumText(t)) > 0
       THEN [members |-> PushItem(ms, m, NewItem(NumText(t), << >>)),
             currentItem |-> Len(ms[m].items) + 1]
       ELSE IF cur = 0
       THEN [members |-> PushItem(ms, m, NewItem(<< >>, << >>)),
             currentItem |-> Len(ms[m].items) + 1]
       ELSE [members |-> ms, currentItem |-> cur]
  ELSE IF Len(t) > 0
  THEN IF cur # 0
       THEN [members |-> [ms EXCEPT ![m].items[cur].title = @ \o <<" ">> \o t],
             currentItem |-> cur]
       ELSE [members |-> PushItem(ms, m, NewItem(t, << >>)),
             currentItem |-> Len(ms[m].items) + 1]
  ELSE [members |-> ms, currentItem |-> cur]

\* lines 401-423: the item-title column of a row of member m
AfterTitle(ms, m, cur, t) ==
  IF Len(t) > 0 /\ NumMatches(t)
  THEN IF Len(NumText(t)) > 0
       THEN [members |-> PushItem(ms, m, NewItem(NumText(t), << >>)),
             currentItem |-> Len(ms[m].items) + 1]
       ELSE IF cur = 0
       THEN [members |-> PushItem(ms, m, NewItem(<< >>, << >>)),
             currentItem |-> Len(ms[m].items) + 1]
       ELSE [members |-> ms, currentItem |-> cur]
  ELSE IF Len(t) > 0
  THEN IF cur # 0
       THEN [members |-> [ms EXCEPT ![m].items[cur].title = @ \o t],
             currentItem |-> cur]
       ELSE [members |-> PushItem(ms, m, NewItem(t, << >>)),
             currentItem |-> Len(ms[m].items) + 1]
  ELSE [members |-> ms, currentItem |-> cur]

\* the title "(不明)" of line 444
Unknown == <<"(", "fu", "mei", ")">>

\* the detail column with every unnumbered text kept as an entry of its own
AfterDetail_AlwaysPush(ms, m, cur, d) ==
  IF Len(d) > 0 /\ cur # 0
  THEN IF NumMatches(d)
       THEN IF Len(NumText(d)) > 0
            THEN [members |-> [ms EXCEPT ![m].items[cur].details = Append(@, NumText(d))],
                  currentItem |-> cur]
            ELSE [members |-> ms, currentItem |-> cur]
       ELSE [members |-> [ms EXCEPT ![m].items[cur].details = Append(@, d)],
             currentItem |-> cur]
  ELSE IF Len(d) > 0
  THEN [members |-> PushItem(ms, m, NewItem(Unknown, <<d>>)),
        currentItem |-> Len(ms[m].items) + 1]
  ELSE [members |-> ms, currentItem |-> cur]

\* lines 425-447: the detail column of the same row
AfterDetail(ms, m, cur, d) ==
  IF Len(d) > 0 /\ cur # 0
  THEN IF NumMatches(d)
       THEN IF Len(NumText(d)) > 0
            THEN [members |-> [ms EXCEPT ![m].items[cur].details = Append(@, NumText(d))],
                  currentItem |-> cur]
            ELSE [members |-> ms, currentItem |-> cur]
       ELSE IF Len(ms[m].items[cur].details) > 0
            THEN [members |->
                    [ms EXCEPT ![m].items[cur].details[Len(ms[m].items[cur].details)] = @ \o d],
                  currentItem |-> cur]
            ELSE [members |-> [ms EXCEPT ![m].items[cur].details = Append(@, d)],
                  currentItem |-> cur]
  ELSE IF Len(d) > 0
  THEN [members |-> PushItem(ms, m, NewItem(Unknown, <<d>>)),
        currentItem |-> Len(ms[m].items) + 1]
  ELSE [members |-> ms, currentItem |-> cur]

\* the inputs of parsePdfWithCoordinates: lists of table rows, laid out on
\* pages as the renderer of lines 241-253 reports them
MaxRows == 4         \* table rows of a list of questions
RowsPerPage == 2     \* table rows on one page

NoCell == << >>

\* the rows a list is made of; each column is given as its text items
TableRow(tag) ==
  CASE tag = "member" ->
         [order |-> <<<<"3">>>>,
          title |-> <<<<"7", "ban">>, <<"SP", "tsuji", "SP", "makoto">>>>,
          detail |-> NoCell, respondent |-> NoCell]
    [] tag = "item" ->
         [order |-> NoCell,
          title |-> <<<<"F1">>, <<"A">>>>,
          detail |-> <<<<"1", " ", "x">>>>,
          respondent |-> <<<<"shi", "chou">>>>]
    [] tag = "number" ->
         [order |-> NoCell, title |-> <<<<"2">>>>, detail |-> NoCell,
          respondent |-> NoCell]
    [] tag = "title" ->
         [order |-> NoCell, title |-> <<<<"B", "F7">>>>, detail |-> NoCell,
          respondent |-> NoCell]
    [] tag = "subitem" ->
         [order |-> NoCell, title |-> NoCell, detail |-> <<<<"F2">>, <<"y">>>>,
          respondent |-> NoCell]
    [] tag = "subnumber" ->
         [order |-> NoCell, title |-> NoCell, detail |-> <<<<"3">>>>,
          respondent |-> NoCell]
    [] tag = "detail" ->
         [order |-> NoCell, title |-> NoCell, detail |-> <<<<"z", " ">>>>,
          respondent |-> NoCell]
    [] OTHER ->
         [order |-> <<<<"jun">>>>, title |-> <<GisekiBangou>>,
          detail |-> <<ShitsumonKoumoku>>, respondent |-> NoCell]

RowTags ==
  {"member", "item", "number", "title", "subitem", "subnumber", "detail", "header"}

\* the text items of one cell: the first at the column's left edge, the next
\* ones to its right; the detail column sits 3 lower than the rest of its row
CellItems(cell, x, y) == [k \in 1..Len(cell) |-> [text |-> cell[k], x |-> x + 40 * (k - 1), y |-> y]]

RowItems(tr, y) ==
  CellItems(tr.respondent, 500, y) \o CellItems(tr.detail, 200, y - 3)
    \o CellItems(tr.title, 80, y) \o CellItems(tr.order, 50, y)

\* the items of the table rows first..last of a list, the lowest row first
RECURSIVE PageItems(_, _, _)
PageItems(tags, first, last) ==
  IF first > last THEN << >>
  ELSE PageItems(tags, first + 1, last)
         \o RowItems(TableRow(tags[first]), 800 - 20 * ((first - 1) % RowsPerPage))

\* a page that is not JSON
BadPage == [json |-> FALSE]

RECURSIVE PagesFrom(_, _)
PagesFrom(tags, first) ==
  IF first > Len(tags) THEN << >>
  ELSE LET last == IF first + RowsPerPage - 1 < Len(tags)
                   THEN first + RowsPerPage - 1 ELSE Len(tags)
       IN <<[json |-> TRUE, items |-> PageItems(tags, first, last)]>> \o PagesFrom(tags, last + 1)

PagesOf(src) ==
  IF src.broken THEN <<BadPage>> \o PagesFrom(src.tags, 1) ELSE PagesFrom(src.tags, 1)

RECURSIVE TagListsUpTo(_)
TagListsUpTo(n) ==
  IF n = 0 THEN {<< >>}
  ELSE LET shorter == TagListsUpTo(n - 1)
       IN shorter \union { Append(l, t) : l \in {k \in shorter : Len(k) = n - 1},
                                           t \in RowTags }

\* a list of questions; the ones of one row come also behind a broken page
QuestionSources ==
  { [kind |-> "list", tags |-> tags, broken |-> FALSE] : tags \in TagListsUpTo(MaxRows) }
    \union { [kind |-> "list", tags |-> <<t>>, broken |-> TRUE] : t \in RowTags }

QuestionsInit ==
  /\ qSrc \in QuestionSources
  /\ pagesJson = PagesOf(qSrc)
  /\ pageIdx = 0
  /\ pageRows = << >>
  /\ rowIdx = 0
  /\ members = << >>
  /\ currentMember = 0
  /\ currentItem = 0
  /\ orderCounter = 0
  /\ qpc = "page"
  /\ NamesIdle
  /\ ParseIdle
  /\ MainIdle
  /\ RowsIdle
  /\ UpdatesIdle
  /\ CharsIdle

othersOfQuestions == <<namesVars, parseVars, mainVars, rowsVars, updatesVars, charsVars>>

\* lines 361-366: JSON.parse throws, the page is passed over
SkipBadPage ==
  /\ qpc = "page"
  /\ pageIdx < Len(pagesJson)
  /\ pagesJson[pageIdx + 1] = BadPage
  /\ pageIdx' = pageIdx + 1
  /\ UNCHANGED <<qSrc, pagesJson, pageRows, rowIdx, members, currentMember,
                 currentItem, orderCounter, qpc>>
  /\ UNCHANGED othersOfQuestions

\* lines 361-369: the page is parsed and its items grouped into rows
GroupPage ==
  /\ qpc = "page"
  /\ pageIdx < Len(pagesJson)
  /\ pagesJson[pageIdx + 1] # BadPage
  /\ pageRows' = groupIntoRows(pagesJson[pageIdx + 1].items)
  /\ rowIdx' = 0
  /\ pageIdx' = pageIdx + 1
  /\ qpc' = "row"
  /\ UNCHANGED <<qSrc, pagesJson, members, currentMember, currentItem, orderCounter>>
  /\ UNCHANGED othersOfQuestions

\* the row the loop of line 371 is at, and its normalised columns
ThisRow == parseRow(pageRows[rowIdx + 1])

ItemTitleNorm == toHalfLine(Trim(ThisRow.itemTitle))

DetailNorm == toHalfLine(Trim(ThisRow.detail))

IsMemberRow == Len(MemberMatch(ItemTitleNorm)) > 0 /\ Len(DetailNorm) = 0

AtRow == qpc = "row" /\ rowIdx < Len(pageRows)

\* lines 372-373
HeaderRow ==
  /\ AtRow
  /\ isHeaderRow(ThisRow)
  /\ rowIdx' = rowIdx + 1
  /\ UNCHANGED <<qSrc, pagesJson, pageIdx, pageRows, members, currentMember,
                 currentItem, orderCounter, qpc>>
  /\ UNCHANGED othersOfQuestions

\* lines 379-392
MemberRow ==
  /\ AtRow
  /\ ~isHeaderRow(ThisRow)
  /\ IsMemberRow
  /\ orderCounter' = orderCounter + 1
  /\ members' = Append(members,
                       [memberName |-> RemoveSpaces(MemberMatch(ItemTitleNorm)),
                        order |-> orderCounter + 1,
                        items |-> << >>])
  /\ currentMember' = Len(members) + 1
  /\ currentItem' = 0
  /\ rowIdx' = rowIdx + 1
  /\ UNCHANGED <<qSrc, pagesJson, pageIdx, pageRows, qpc>>
  /\ UNCHANGED othersOfQuestions

\* line 394
RowBeforeMembers ==
  /\ AtRow
  /\ ~isHeaderRow(ThisRow)
  /\ ~IsMemberRow
  /\ currentMember = 0
  /\ rowIdx' = rowIdx + 1
  /\ UNCHANGED <<qSrc, pagesJson, pageIdx, pageRows, members, currentMember,
                 currentItem, orderCounter, qpc>>
  /\ UNCHANGED othersOfQuestions

\* the row's item and detail given to the first member of the list
ContentRow_FirstMember ==
  /\ AtRow
  /\ ~isHeaderRow(ThisRow)
  /\ ~IsMemberRow
  /\ currentMember # 0
  /\ LET t == AfterTitle(members, 1, currentItem, ItemTitleNorm)
         d == AfterDetail(t.members, 1, t.currentItem, DetailNorm)
     IN /\ members' = d.members
        /\ currentItem' = d.currentItem
  /\ rowIdx' = rowIdx + 1
  /\ UNCHANGED <<qSrc, pagesJson, pageIdx, pageRows, currentMember, orderCounter, qpc>>
  /\ UNCHANGED othersOfQuestions

\* lines 396-447
ContentRow ==
  /\ AtRow
  /\ ~isHeaderRow(ThisRow)
  /\ ~IsMemberRow
  /\ currentMember # 0
  /\ LET t == AfterTitle(members, currentMember, currentItem, ItemTitleNorm)
         d == AfterDetail(t.members, currentMember, t.currentItem, DetailNorm)
     IN /\ members' = d.members
        /\ currentItem' = d.currentItem
  /\ rowIdx' = rowIdx + 1
  /\ UNCHANGED <<qSrc, pagesJson, pageIdx, pageRows, currentMember, orderCounter, qpc>>
  /\ UNCHANGED othersOfQuestions

\* the rows of the page are used up
EndPage ==
  /\ qpc = "row"
  /\ rowIdx = Len(pageRows)
  /\ qpc' = "page"
  /\ UNCHANGED <<qSrc, pagesJson, pageIdx, pageRows, rowIdx, members, currentMember,
                 currentItem, orderCounter>>
  /\ UNCHANGED othersOfQuestions

\* line 450
ReturnMembers ==
  /\ qpc = "page"
  /\ pageIdx = Len(pagesJson)
  /\ qpc' = "done"
  /\ UNCHANGED <<qSrc, pagesJson, pageIdx, pageRows, rowIdx, members, currentMember,
                 currentItem, orderCounter>>
  /\ UNCHANGED othersOfQuestions

QuestionsNext ==
  \/ SkipBadPage
  \/ GroupPage
  \/ HeaderRow
  \/ MemberRow
  \/ RowBeforeMembers
  \/ ContentRow
  \/ EndPage
  \/ ReturnMembers

SpecQuestions == QuestionsInit /\ [][QuestionsNext]_vars

-----------------------------------------------------------------------------
(* The updates scraper, scrape-session-bills.ts:379-553                    *)

MaxUpdateRuns == 3   \* runs of the updates scraper
MaxPageEntries == 2  \* entries of the page's list of updates

\* entryKey, lines 442-444: `${e.date}|${e.title}|${e.url}`
entryKey(e) == e.date \o <<"|">> \o e.title \o <<"|">> \o e.url

\* what the loop of lines 488-519 reads from one li.box, before firstSeenAt
\* is set
PageEntryPool ==
  [date : {<<"2026-02-13">>, <<"2026-02-20">>},
   label : {"koushin", "shinki"},
   title : {<<"kai", "gi", "roku">>, <<"nittei">>},
   url : {<<"https://www.city.kiryu.lg.jp/shigikai/a.html">>}]

RECURSIVE PagesUpTo(_)
PagesUpTo(n) ==
  IF n = 0 THEN {<< >>}
  ELSE LET shorter == PagesUpTo(n - 1)
       IN shorter \union { Append(l, e) : l \in {k \in shorter : Len(k) = n - 1},
                                           e \in PageEntryPool }

UpdatePages == PagesUpTo(MaxPageEntries) \ {<< >>}

\* line 518: the entries scraped at time now
Scraped(page, now) ==
  [k \in 1..Len(page) |->
     [date |-> page[k].date, label |-> page[k].label, title |-> page[k].title,
      url |-> page[k].url, firstSeenAt |-> now]]

\* loadExisting, lines 432-440, and the entries of lines 531-533 and 541
ExistingEntries == IF updatesFile.exists THEN updatesFile.entries ELSE << >>

\* lines 531-535: the scraped entries whose key is not stored
NewEntries(scraped) ==
  LET existingKeys == { entryKey(ExistingEntries[k]) : k \in 1..Len(ExistingEntries) }
  IN SelectSeq(scraped, LAMBDA e : entryKey(e) \notin existingKeys)

UpdatesInit ==
  /\ updatesFile = [exists |-> FALSE]
  /\ updateRuns = 0
  /\ NamesIdle
  /\ ParseIdle
  /\ MainIdle
  /\ RowsIdle
  /\ QuestionsIdle
  /\ CharsIdle

othersOfUpdates == <<namesVars, parseVars, mainVars, rowsVars, questionVars, charsVars>>

\* lines 445-553: a run that reads a page with entries
UpdatesRun ==
  /\ updateRuns < MaxUpdateRuns
  /\ \E page \in UpdatePages :
       LET now == updateRuns + 1
       IN updatesFile' = [exists |-> TRUE,
                          lastCheckedAt |-> now,
                          entries |-> NewEntries(Scraped(page, now)) \o ExistingEntries]
  /\ updateRuns' = updateRuns + 1
  /\ UNCHANGED othersOfUpdates

\* lines 452-454, 471-482 and 523-527: the run throws before anything is
\* written
UpdatesRunFails ==
  /\ updateRuns < MaxUpdateRuns
  /\ updateRuns' = updateRuns + 1
  /\ UNCHANGED updatesFile
  /\ UNCHANGED othersOfUpdates

UpdatesNext == UpdatesRun \/ UpdatesRunFails

SpecUpdates == UpdatesInit /\ [][UpdatesNext]_vars

-----------------------------------------------------------------------------
(* extractNameCharSequence on texts with lines around the name block       *)

MaxBefore == 7       \* lines between a stray character and the marker line

Filler == <<"kudari", "kudari">>

\* A text: a line holding the one ideograph "tatoe" with before - 1 longer
\* lines under it (before = 0: no such line), the marker line, a separator or
\* a hiragana on a line of its own (lead), the name of one member one
\* character per line, and then nothing, or the header phrase once more and
\* the one ideograph "kudari".
CharText(src) ==
  (IF src.before > 0
   THEN <<<<"tatoe">>>> \o [k \in 1..(src.before - 1) |-> Filler]
   ELSE << >>)
  \o <<NameHeader>>
  \o (IF src.lead = "none" THEN << >> ELSE <<<<src.lead>>>>)
  \o Vertical(FullName(src.member))
  \o (IF src.tail = "header" THEN <<NameHeader \o <<"kudari">>, <<"kudari">>>> ELSE << >>)

CharSources ==
  [kind : {"chars"}, before : 0..MaxBefore, lead : {"none", "SP", "h_no"},
   member : { [family |-> <<"tsuji">>, given |-> <<"makoto">>],
              [family |-> <<"ii", "shima">>, given |-> <<"hiro", "ichi">>] },
   tail : {"none", "header"}]

CharsInit ==
  /\ charSrc \in CharSources
  /\ nameText = CharText(charSrc)
  /\ nameChars = << >>
  /\ cpc = "start"
  /\ NamesIdle
  /\ ParseIdle
  /\ MainIdle
  /\ RowsIdle
  /\ QuestionsIdle
  /\ UpdatesIdle

ExtractChars ==
  /\ cpc = "start"
  /\ nameChars' = extractNameCharSequence(nameText)
  /\ cpc' = "done"
  /\ UNCHANGED <<charSrc, nameText>>
  /\ UNCHANGED <<namesVars, parseVars, mainVars, rowsVars, questionVars, updatesVars>>

CharsNext == ExtractChars

SpecChars == CharsInit /\ [][CharsNext]_vars

-----------------------------------------------------------------------------
(* Properties of parseVotingText (SpecParse)                               *)

\* the blocks the loop of lines 731-793 has gone through
BlocksDone == IF ppc \in {"build", "done"} THEN blockIdx - 1 ELSE 0

CountMatches(block) ==
  Len(block.voteSymbols) \in {Len(memberNames), Len(memberNames) - 1}

\* C1: every record has N or N-1 vote entries, N the number of decoded
\* members, and the records are exactly those of the blocks whose symbol
\* count is N or N-1: a block with another count leaves no record.
C1_VotesLength ==
  /\ \A i \in 1..Len(records) :
       Len(records[i].votes) \in {Len(memberNames), Len(memberNames) - 1}
  /\ Len(records) = Cardinality({k \in 1..BlocksDone : CountMatches(billBlocks[k])})

\* C1 witness: the call has ended with a record of N-1 entries and a block
\* dropped for its count.
C1_Witness ==
  /\ ppc = "done"
  /\ \E i \in 1..Len(records) : Len(records[i].votes) = Len(memberNames) - 1
  /\ \E k \in 1..Len(billBlocks) : ~CountMatches(billBlocks[k])

\* the speaker-unresolved flag of a record
SpeakerUnresolvedFlag(r) == "speakerUnresolved" \in DOMAIN r

\* C2 as stated: every record has as many vote entries as there are decoded
\* members, unless the record carries the speaker-unresolved flag.
C2_FullLengthOrFlagged ==
  \A i \in 1..Len(records) :
    Len(records[i].votes) = Len(memberNames) \/ SpeakerUnresolvedFlag(records[i])

Presiding(r) == {j \in 1..Len(r.votes) : r.votes[j].vote = "gichou"}

\* C3 as stated: every record of the document has exactly one entry 議長,
\* and on the same member in every record.
C3_OnePresiding ==
  /\ \A i \in 1..Len(records) : Cardinality(Presiding(records[i])) = 1
  /\ \A i, j \in 1..Len(records) :
       \A a \in Presiding(records[i]) : \A b \in Presiding(records[j]) :
         records[i].votes[a].memberName = records[j].votes[b].memberName

\* the document names at least two members, once each, has the marker right
\* after the name of one of them, and N-1 vote symbols in every bill
SpeakerMarked ==
  /\ docSrc.kind = "doc" /\ docSrc.header
  /\ Len(docSrc.ms) >= 2
  /\ docSrc.markerAt > 0
  /\ \A a, b \in 1..Len(docSrc.ms) : docSrc.ms[a] = docSrc.ms[b] => a = b
  /\ Len(docSrc.bills) > 0
  /\ \A j \in 1..Len(docSrc.bills) : Len(docSrc.bills[j]) = Len(docSrc.ms) - 1

\* the k-th member other than member m
OtherMember(k, m) == IF k < m THEN k ELSE k + 1

\* C4 as stated: with the speaker marked at member m and N-1 symbols in every
\* bill, there is one record per bill, each of N entries in member order,
\* the entry of m is 議長 and the k-th other member has the k-th symbol.
C4_SpeakerZipped ==
  (ppc = "done" /\ SpeakerMarked) =>
    /\ Len(records) = Len(docSrc.bills)
    /\ \A i \in 1..Len(records) :
         LET r == records[i]
             m == docSrc.markerAt
         IN /\ Len(r.votes) = Len(docSrc.ms)
            /\ \A n \in 1..Len(r.votes) : r.votes[n].memberName = FullName(docSrc.ms[n])
            /\ r.votes[m].vote = "gichou"
            /\ \A k \in 1..(Len(docSrc.ms) - 1) :
                 r.votes[OtherMember(k, m)].vote = normalizeVote(docSrc.bills[i][k])

\* the record of bill j of a generated document, taken by itself: the
\* number and title of its layout, the outcome, and its symbols on the first
\* members in order
RecordOfBill(j, row) ==
  [billNumber |-> <<"gi", "an", "dai", IF j % 2 = 1 THEN "1" ELSE "2", "gou">>,
   billTitle |-> IF j % 2 = 1 THEN <<"kudari", "tatoe">> ELSE << >>,
   result |-> GenanKaketsu,
   votes |-> [k \in 1..Len(row) |->
                [memberName |-> memberNames[k], vote |-> normalizeVote(row[k])]]]

\* the bill is one that is left out: no symbol, or a count other than N, N-1
Offending(row) ==
  Len(row) = 0 \/ Len(row) \notin {Len(memberNames), Len(memberNames) - 1}

RECURSIVE RecordsOfBills(_, _)
RecordsOfBills(rows, j) ==
  IF j > Len(rows) THEN << >>
  ELSE (IF Offending(rows[j]) THEN << >> ELSE <<RecordOfBill(j, rows[j])>>)
       \o RecordsOfBills(rows, j + 1)

\* C11: of a document with decoded members, the records are those of the
\* bills that have N or N-1 symbols (and at least one), in document order,
\* each with the content it has by itself; a bill with no symbol or with
\* another count is left out and changes nothing of the others.
C11_OthersStillEmitted ==
  (ppc = "done" /\ docSrc.kind = "doc" /\ Len(memberNames) > 0)
    => records = RecordsOfBills(docSrc.bills, 1)

\* C11 witness: a document of two bills has been parsed whose first bill was
\* left out and whose second bill is the only record.
C11_Witness ==
  /\ ppc = "done" /\ docSrc.kind = "doc" /\ Len(memberNames) > 0
  /\ Len(docSrc.bills) = 2
  /\ Offending(docSrc.bills[1]) /\ ~Offending(docSrc.bills[2])
  /\ Len(records) = 1 /\ records[1].billNumber = <<"gi", "an", "dai", "2", "gou">>

\* the outcome a phrase stands for: the three spellings of U+540C U+610F are
\* one outcome, the reply phrase stands for its full form, every other
\* listed phrase for itself, anything else for none
WrittenOutcome(phrase) ==
  IF phrase \in {Doui, <<"dou", "SP", "kokoro">>, <<"dou", "SP", "SP", "kokoro">>} THEN Doui
  ELSE IF phrase = IgiNai \o <<"mawaru", "kotae">> THEN IgiNaiKettei
  ELSE IF \E k \in 1..Len(resultPatterns) : phrase = resultPatterns[k] THEN phrase
  ELSE << >>

\* C28 as stated: the outcome read from the row of a bill is the outcome
\* written after its vote symbols (U+4E0D U+63A1 U+629E for that phrase, not
\* U+63A1 U+629E), and the empty string when no listed phrase stands there.
C28_OutcomeWritten ==
  (docSrc.kind = "result" /\ ppc \in {"speaker", "build", "done"})
    => /\ Len(billBlocks) = 1
       /\ billBlocks[1].result = WrittenOutcome(docSrc.phrase)

-----------------------------------------------------------------------------
(* Properties of groupIntoRows (SpecRows)                                  *)

\* the reference Y of a row: the Y of its topmost item
RefY(row) == CHOOSE y \in { row[k].y : k \in 1..Len(row) } :
               \A k \in 1..Len(row) : row[k].y <= y

\* C18: the rows come top to bottom, each row's reference Y more than 5 below
\* the reference Y of the row before it; the items of a row are in
\* non-decreasing X order; every item of a row lies within 5 of the row's
\* reference Y.
C18_RowsOrdered ==
  rpc = "done" =>
    /\ \A r \in 1..Len(itemRows) : Len(itemRows[r]) > 0
    /\ \A r \in 2..Len(itemRows) : RefY(itemRows[r]) < RefY(itemRows[r - 1]) - 5
    /\ \A r \in 1..Len(itemRows) : \A k \in 2..Len(itemRows[r]) :
         itemRows[r][k - 1].x <= itemRows[r][k].x
    /\ \A r \in 1..Len(itemRows) : \A k \in 1..Len(itemRows[r]) :
         Abs(itemRows[r][k].y - RefY(itemRows[r])) <= 5

\* three items 4 apart, given bottom first and right first: the lowest one is
\* within 5 of its neighbour but not of the topmost, and starts a second row
C18_Witness ==
  /\ rpc = "done"
  /\ Len(items) = 3
  /\ items[1].y = 100 /\ items[2].y = 104 /\ items[3].y = 108
  /\ items[2].x > items[3].x
  /\ Len(itemRows) = 2
  /\ itemRows[1] = <<items[3], items[2]>>
  /\ itemRows[2] = <<items[1]>>

-----------------------------------------------------------------------------
(* Properties of parsePdfWithCoordinates (SpecQuestions)                   *)

\* the loop is at a row that is handled by lines 396-447
OnContentRow ==
  AtRow /\ ~isHeaderRow(ThisRow) /\ ~IsMemberRow /\ currentMember # 0

\* the loop is at a member row
OnMemberRow == AtRow /\ ~isHeaderRow(ThisRow) /\ IsMemberRow

\* the items of the current member
Items == members[currentMember].items

RECURSIVE DetailCount(_)
DetailCount(its) ==
  IF Len(its) = 0 THEN 0 ELSE Len(Head(its).details) + DetailCount(Tail(its))

Unnumbered(t) == Len(t) > 0 /\ ~NumMatches(t)

Numbered(t) == Len(t) > 0 /\ NumMatches(t)

\* C12 as stated: a row that holds only unnumbered text adds no item and no
\* detail entry.
C12_NeverCreates ==
  [][(OnContentRow /\ ~NumMatches(ItemTitleNorm) /\ ~NumMatches(DetailNorm))
       => (Len(Items') = Len(Items) /\ DetailCount(Items') = DetailCount(Items))]_vars

\* C12: unnumbered title text is appended to the current item's title, and
\* opens an item when the member has none yet; unnumbered detail text is
\* appended to the last detail of the current item, becomes the item's first
\* detail when it has none, and opens an item titled "(不明)" when the member
\* has no item.
C12_AppendsOrOpens ==
  [][/\ (OnContentRow /\ Unnumbered(ItemTitleNorm) /\ Len(DetailNorm) = 0)
          => IF currentItem # 0
             THEN /\ Items' = [Items EXCEPT ![currentItem].title = @ \o ItemTitleNorm]
                  /\ currentItem' = currentItem
             ELSE /\ Items' = Append(Items, [title |-> ItemTitleNorm, details |-> << >>])
                  /\ currentItem' = Len(Items')
     /\ (OnContentRow /\ Unnumbered(DetailNorm) /\ Len(ItemTitleNorm) = 0)
          => IF currentItem = 0
             THEN /\ Items' = Append(Items, [title |-> Unknown, details |-> <<DetailNorm>>])
                  /\ currentItem' = Len(Items')
             ELSE /\ currentItem' = currentItem
                  /\ Items' =
                       IF Len(Items[currentItem].details) = 0
                       THEN [Items EXCEPT ![currentItem].details = <<DetailNorm>>]
                       ELSE [Items EXCEPT
                               ![currentItem].details[Len(Items[currentItem].details)] =
                                 @ \o DetailNorm]]_vars

\* a member whose first row is unnumbered title text, followed by one
\* unnumbered and one numbered detail and a wrapped detail line
C12_Witness ==
  /\ qpc = "done"
  /\ qSrc.tags = <<"member", "title", "detail", "detail">>
  /\ members[1].items = <<[title |-> <<"B", "7">>, details |-> <<<<"z", "z">>>>]>>

\* C13: the row that continues a title adds its text to the title of the
\* current item with nothing put in between, and leaves the number of items
\* and every other item as they were.
C13_WrappedTitle ==
  [][(OnContentRow /\ Unnumbered(ItemTitleNorm) /\ currentItem # 0)
       => /\ Len(Items') = Len(Items)
          /\ Items'[currentItem'].title =
               Items[currentItem].title \o toHalfLine(Trim(ThisRow.itemTitle))
          /\ currentItem' = currentItem
          /\ \A k \in 1..Len(Items) : k # currentItem => Items'[k] = Items[k]]_vars

\* item 1 is declared as "１A" and its title goes on as "B７" on the next row
C13_Witness ==
  /\ qpc = "done"
  /\ qSrc.tags = <<"member", "item", "title">>
  /\ members[1].items = <<[title |-> <<"A", "B", "7">>, details |-> <<<<"x">>>>]>>

\* the number a text of digits stands for
RECURSIVE NumVal(_)
NumVal(t) ==
  IF Len(t) = 0 THEN 0
  ELSE 10 * NumVal(SubSeq(t, 1, Len(t) - 1))
         + (CHOOSE n \in 0..9 : ToString(n) = t[Len(t)])

\* C14: the order of a member is the number in the order column of the
\* member's row, and is positive.
C14_DeclaredOrder ==
  [][OnMemberRow
       => /\ members'[Len(members')].order = NumVal(toHalfLine(Trim(ThisRow.order)))
          /\ members'[Len(members')].order > 0]_vars

\* C16: a row whose item-title text starts with a number opens a new item,
\* which becomes the current one.
C16_NumberOpensItem ==
  [][(OnContentRow /\ Numbered(ItemTitleNorm))
       => (Len(Items') = Len(Items) + 1 /\ currentItem' = Len(Items'))]_vars

\* C17: a numbered detail text adds exactly one string at the end of the
\* details of the current item; an unnumbered one is appended to the last
\* detail string there is, and adds none.
C17_OneDetailPerNumber ==
  [][/\ (OnContentRow /\ Numbered(DetailNorm))
          => /\ currentItem' # 0
             /\ DetailCount(Items') = DetailCount(Items) + 1
             /\ Len(Items'[currentItem'].details) > 0
     /\ (/\ OnContentRow
         /\ Unnumbered(DetailNorm)
         /\ Len(ItemTitleNorm) = 0
         /\ currentItem # 0
         /\ Len(Items[currentItem].details) > 0)
          => /\ DetailCount(Items') = DetailCount(Items)
             /\ Items'[currentItem].details[Len(Items[currentItem].details)] =
                  Items[currentItem].details[Len(Items[currentItem].details)] \o DetailNorm]_vars

\* C29: the current member is the member of the most recent member-header
\* row (none before the first one); a step adds a member only on a
\* member-header row, which also resets the current item; every other change
\* of the list is a change of the items of the current member alone, so rows
\* before the first member header change nothing; from one page to the next
\* the members, the current member and the current item stay as they are.
C29_AttachedToCurrentMember ==
  [][/\ currentMember = Len(members)
     /\ currentMember' = Len(members')
     /\ Len(members') > Len(members)
          => /\ qpc = "row" /\ IsMemberRow
             /\ Len(members') = Len(members) + 1
             /\ members'[Len(members')].items = << >>
             /\ currentItem' = 0
             /\ \A i \in 1..Len(members) : members'[i] = members[i]
     /\ Len(members') = Len(members)
          => /\ \A i \in 1..(Len(members) - 1) : members'[i] = members[i]
             /\ currentMember = 0 => members' = << >>
             /\ members' # members
                  => (qpc = "row" /\ members'[currentMember].memberName
                                       = members[currentMember].memberName)
     /\ qpc # "row" => UNCHANGED <<members, currentMember, currentItem>>
    ]_vars

\* C29 witness: the list of a first member holds an item opened on page 1 and
\* a detail row of page 2, and a second member opened after it has none.
C29_Witness ==
  /\ qpc = "done"
  /\ qSrc.tags = <<"member", "item", "subitem", "member">>
  /\ Len(members) = 2
  /\ Len(members[1].items) = 1
  /\ Len(members[1].items[1].details) = 2
  /\ members[2].items = << >>
  /\ currentItem = 0

-----------------------------------------------------------------------------
(* Properties of the updates scraper (SpecUpdates)                         *)

\* the stored entries before a run are the tail of the stored entries after it
OldEntriesKept ==
  LET old == ExistingEntries
      new == ExistingEntries'
  IN /\ Len(new) >= Len(old)
     /\ SubSeq(new, Len(new) - Len(old) + 1, Len(new)) = old

NoDuplicateKeys ==
  \A i, j \in 1..Len(ExistingEntries) :
    entryKey(ExistingEntries[i]) = entryKey(ExistingEntries[j]) => i = j

\* C15: a run keeps every stored entry as it is (firstSeenAt included), in
\* the same order, behind the entries it adds, and the stored list never holds
\* two entries with the same key.
C15_StoredEntries == [][OldEntriesKept]_vars /\ []NoDuplicateKeys

\* the rows that end the block of bill 1
Terminators == {"bill", "caption", "header"}

\* the rows of a scanned document between the identifier line and the first
\* row that ends the block
RECURSIVE RowsOfBlock(_)
RowsOfBlock(body) ==
  IF Len(body) = 0 \/ Head(body) \in Terminators THEN << >>
  ELSE <<Head(body)>> \o RowsOfBlock(Tail(body))

RECURSIVE SymbolsOfRows(_)
SymbolsOfRows(tags) ==
  IF Len(tags) = 0 THEN << >>
  ELSE (CASE Head(tags) = "votes"  -> <<"sansei", "hantai">>
          [] Head(tags) = "symbol" -> <<"hantai">>
          [] Head(tags) = "titled" -> <<"sansei">>
          [] OTHER                 -> << >>)
       \o SymbolsOfRows(Tail(tags))

ExpectedSymbols(src) ==
  (IF src.inline THEN <<"sansei">> ELSE << >>) \o SymbolsOfRows(RowsOfBlock(src.body))

Bill1 == <<"gi", "an", "dai", "1", "gou">>

Scanned == docSrc.kind = "scan" /\ ppc \in {"speaker", "build", "done"}

RECURSIVE FirstOutcome(_)
FirstOutcome(tags) ==
  IF Len(tags) = 0 THEN << >>
  ELSE IF Head(tags) = "votes" THEN GenanKaketsu
  ELSE IF Head(tags) = "outcome" THEN <<"osamu", "tadashi", "beshi", "ketsu">>
  ELSE FirstOutcome(Tail(tags))

\* C20: the outcome of bill 1 is the outcome phrase of the first row of its
\* block that holds one; rows after that one do not change it.
C20_FirstOutcomeStays ==
  (Scanned /\ Len(ExpectedSymbols(docSrc)) > 0)
    => billBlocks[1].result = FirstOutcome(RowsOfBlock(docSrc.body))

\* the title texts that stand in front of the vote symbols on the rows of
\* the block
RECURSIVE TitlesOfRows(_)
TitlesOfRows(tags) ==
  IF Len(tags) = 0 THEN << >>
  ELSE (IF Head(tags) = "titled" THEN <<<<"tatoe">>>> ELSE << >>)
       \o TitlesOfRows(Tail(tags))

\* C21: on every row of the block of bill 1 that holds title text and vote
\* symbols, the symbols are taken as votes and the text in front of the first
\* symbol is added to the title of the bill.
C21_TitleBeforeSymbols ==
  (Scanned /\ Len(ExpectedSymbols(docSrc)) > 0)
    => /\ billBlocks[1].voteSymbols = ExpectedSymbols(docSrc)
       /\ billBlocks[1].titleParts =
            (IF docSrc.inline THEN <<<<"kudari">>>> ELSE << >>)
              \o TitlesOfRows(RowsOfBlock(docSrc.body))

\* the marker stands right after the name of a decoded member, and an empty
\* line before every name makes the run of one-character lines before the
\* marker that name alone: family, separator, given name
MarkerAfterOneName ==
  /\ docSrc.kind = "doc" /\ docSrc.gap
  /\ docSrc.markerAt > 0
  /\ \E k \in 1..Len(memberNames) : memberNames[k] = FullName(docSrc.ms[docSrc.markerAt])

\* C22: findSpeakerFromVerticalText returns null or a decoded member, and
\* when the run of one-character lines before the marker spells one decoded
\* member it returns that member.
C22_SpeakerFromRun ==
  ppc \in {"build", "done"} =>
    /\ \/ speakerMemberName = << >>
       \/ \E k \in 1..Len(memberNames) : memberNames[k] = speakerMemberName
    /\ MarkerAfterOneName => speakerMemberName = FullName(docSrc.ms[docSrc.markerAt])

\* more than half of the bill blocks have N-1 vote symbols
MajorityWithoutSpeaker ==
  2 * Cardinality({k \in 1..Len(billBlocks) :
                     Len(billBlocks[k].voteSymbols) = Len(memberNames) - 1})
    > Len(billBlocks)

\* C23: with the speaker unresolved, a record of N-1 entries is returned only
\* when more than half of the bill blocks have N-1 vote symbols.
C23_MajorityNeeded ==
  (ppc = "done" /\ speakerMemberName = << >>
     /\ \E i \in 1..Len(records) : Len(records[i].votes) = Len(memberNames) - 1)
    => MajorityWithoutSpeaker

\* the step of the assembly loop is at a block of N-1 symbols and the speaker
\* is unresolved
AtBlockWithoutSpeaker ==
  /\ ppc = "build"
  /\ blockIdx <= Len(billBlocks)
  /\ speakerMemberName = << >>
  /\ Len(memberNames) > 1
  /\ Len(billBlocks[blockIdx].voteSymbols) = Len(memberNames) - 1

\* C24: with the speaker unresolved, the block of N-1 symbols yields a record
\* whose entries are the first N-1 decoded members in order, the k-th with
\* the k-th symbol of the block, none of them 議長.
C24_FirstMembersInOrder ==
  [][(AtBlockWithoutSpeaker /\ blockIdx' = blockIdx + 1)
       => /\ Len(records') = Len(records) + 1
          /\ LET r == records'[Len(records')]
             IN /\ r.billNumber = billBlocks[blockIdx].billNumber
                /\ r.votes = [k \in 1..(Len(memberNames) - 1) |->
                                [memberName |-> memberNames[k],
                                 vote |-> billBlocks[blockIdx].voteSymbols[k]]]
                /\ \A k \in 1..Len(r.votes) : r.votes[k].vote # "gichou"]_vars

\* two decoded members, one bill with the one symbol ×: the record holds the
\* first member with 反対
C24_Witness ==
  /\ ppc = "done"
  /\ docSrc.kind = "scan" /\ ~docSrc.inline /\ docSrc.body = <<"symbol">>
  /\ speakerMemberName = << >>
  /\ Len(memberNames) = 2
  /\ Len(records) = 1
  /\ records[1].votes = <<[memberName |-> memberNames[1], vote |-> "hantai"]>>

-----------------------------------------------------------------------------
(* Properties of extractNameCharSequence (SpecChars)                       *)

Holds(seq, c) == \E k \in 1..Len(seq) : seq[k] = c

\* the part of the claim that is the same in both readings: the sequence
\* begins with an ideograph, ends with the name under the marker line, and
\* holds nothing from the second header phrase on
BlockCollected ==
  /\ Len(nameChars) >= Len(FullName(charSrc.member))
  /\ SubSeq(nameChars, Len(nameChars) - Len(FullName(charSrc.member)) + 1, Len(nameChars))
       = FullName(charSrc.member)
  /\ isCJK(nameChars[1])
  /\ ~Holds(nameChars, "kudari")

\* C25 as stated: no character of a line before the marker line enters the
\* sequence.
C25_NothingBeforeMarker ==
  cpc = "done" => (BlockCollected /\ ~Holds(nameChars, "tatoe"))

\* C25: the collection begins five lines before the marker line: a character
\* on a line of its own enters the sequence when it stands one to five lines
\* before the marker line, and no character of an earlier line does.
C25_FromFiveLinesBefore ==
  cpc = "done" =>
    /\ BlockCollected
    /\ Holds(nameChars, "tatoe") <=> (charSrc.before >= 1 /\ charSrc.before <= 5)

\* a stray ideograph six lines before the marker line, a hiragana in front of
\* the name, the header phrase once more after it
C25_Witness ==
  /\ cpc = "done"
  /\ charSrc.before = 6 /\ charSrc.lead = "h_no" /\ charSrc.tail = "header"
  /\ nameChars = FullName(charSrc.member)

-----------------------------------------------------------------------------
(* Properties of the name decoder (SpecNames)                              *)

\* the expected decoding of a member list
FullNames(ms) == [i \in 1..Len(ms) |-> FullName(ms[i])]

\* C6 as stated: a two-member sequence with the separator between family
\* and given name and also between the two members decodes to exactly those
\* two members, in order.
C6_SeparatedMembers ==
  (/\ npc = "done" /\ nameSrc.kind = "members"
   /\ Len(nameSrc.ms) = 2 /\ nameSrc.between /\ ~nameSrc.drop3)
    => names = FullNames(nameSrc.ms)

\* C6 amended: a two-member sequence with the separator between each family
\* and given name and no separator between the first member's given name and
\* the second member's family name decodes to exactly those two members, in
\* order.
C6_AdjacentMembers ==
  (/\ npc = "done" /\ nameSrc.kind = "members"
   /\ Len(nameSrc.ms) = 2 /\ ~nameSrc.between /\ ~nameSrc.drop3)
    => names = FullNames(nameSrc.ms)

\* C6 witness: the decoder has returned two names for such a sequence whose
\* second family name has 1 character.
C6_Witness ==
  /\ npc = "done" /\ nameSrc.kind = "members"
  /\ Len(nameSrc.ms) = 2 /\ ~nameSrc.between /\ ~nameSrc.drop3
  /\ Len(nameSrc.ms[2].family) = 1
  /\ Len(names) = 2

\* one separator removed after every occurrence of a 3-character family
RECURSIVE StripAfterFamilies(_, _)
StripAfterFamilies(s, p) ==
  IF p > Len(s) THEN << >>
  ELSE IF \E k \in 1..Len(KNOWN_3CHAR_FAMILIES) : MatchAt(s, p, KNOWN_3CHAR_FAMILIES[k])
       THEN SubSeq(s, p, p + 2)
            \o StripAfterFamilies(s, IF p + 3 <= Len(s) /\ s[p + 3] = "SP" THEN p + 4 ELSE p + 3)
       ELSE <<s[p]>> \o StripAfterFamilies(s, p + 1)

FamilyFollowedBySeparator(s) ==
  \A k \in 1..Len(KNOWN_3CHAR_FAMILIES) : \A p \in 1..Len(s) :
    MatchAt(s, p, KNOWN_3CHAR_FAMILIES[k]) => (p + 3 <= Len(s) /\ s[p + 3] = "SP")

\* C7: the repair puts a separator after every 3-character dictionary family
\* that lacks one and changes nothing else; a sequence whose occurrences all
\* have the separator is unchanged and repairing twice equals repairing
\* once; a sequence decodes to the same names with or without the
\* separators after its 3-character families, and a member list rendered
\* without them decodes to its members (family of 3 characters, the
\* characters after it as given name).
C7_RepairInsertsSeparator ==
  npc = "done" =>
    LET fixed == FixMissingSeparators(charStr) IN
      /\ FamilyFollowedBySeparator(fixed)
      /\ StripAfterFamilies(fixed, 1) = StripAfterFamilies(charStr, 1)
      /\ FamilyFollowedBySeparator(charStr) => fixed = charStr
      /\ FixMissingSeparators(fixed) = fixed
      /\ names = splitNamesFromSequence(StripAfterFamilies(charStr, 1))
      /\ (nameSrc.kind = "members" /\ ~nameSrc.between /\ nameSrc.drop3)
           => names = FullNames(nameSrc.ms)

\* C7 witness: a member list with a 3-character family was rendered without
\* the separator after it and decoded to that member.
C7_Witness ==
  /\ npc = "done" /\ nameSrc.kind = "members" /\ ~nameSrc.between /\ nameSrc.drop3
  /\ ~FamilyFollowedBySeparator(charStr)
  /\ \E i \in 1..Len(nameSrc.ms) :
       /\ Len(nameSrc.ms[i].family) = 3
       /\ i <= Len(names) /\ names[i] = FullName(nameSrc.ms[i])

\* position of the first separator of a name, 0 when it has none
FirstSeparator(name) ==
  IF \E p \in 1..Len(name) : name[p] = "SP"
  THEN CHOOSE p \in 1..Len(name) : name[p] = "SP" /\ \A q \in 1..(p - 1) : name[q] # "SP"
  ELSE 0

\* C8 as stated: every returned name is a non-empty family part of 1, 2 or 3
\* characters, the separator, and a non-empty given part, for any input.
C8_FamilyPartLength ==
  npc = "done" =>
    \A i \in 1..Len(names) :
      LET sep == FirstSeparator(names[i]) IN
        /\ sep - 1 \in {1, 2, 3}
        /\ sep < Len(names[i])
        /\ \A q \in (sep + 1)..Len(names[i]) : names[i][q] # "SP"

\* the given part of a returned name: what follows its first separator
GivenPart(name) == SubSeq(name, FirstSeparator(name) + 1, Len(name))

\* the interior segments of the repaired sequence
InteriorSegments(s) ==
  LET segs == RawSegments(FixMissingSeparators(s))
  IN [k \in 1..Max0(Len(segs) - 2) |-> segs[k + 1]]

\* C26 as stated: the family length of every interior segment is 3 when it
\* ends with a 3-character dictionary family and is longer than it, else 1
\* for a 1-character dictionary family likewise, else 2; when that leaves a
\* given part outside 1..4 characters the first of 2, 1, 3 that leaves one
\* inside is taken; every name returned for an interior segment has a given
\* part of 1 to 4 characters.
C26_GivenLength ==
  npc = "done" =>
    /\ \A k \in 1..Len(InteriorSegments(charStr)) :
         LET seg == InteriorSegments(charStr)[k] IN
           ValidGivenLen(Len(seg) - DictFamilyLen(seg)) => FamilyLen(seg) = DictFamilyLen(seg)
    /\ \A i \in 1..(Len(names) - 1) : ValidGivenLen(Len(GivenPart(names[i])))

\* C27 as stated: whenever the repaired sequence splits into S >= 2
\* non-empty segments the decoder returns exactly S - 1 names, also when an
\* interior segment has a single character.
C27_OneNamePerBoundary ==
  npc = "done" =>
    LET segs == RawSegments(FixMissingSeparators(charStr))
    IN Len(segs) >= 2 => Len(names) = Len(segs) - 1

-----------------------------------------------------------------------------
(* Properties of main (Spec)                                               *)

\* no member name is decoded from the PDF of the session
NoMemberList(slug) == Len(extractMemberNames(toHalf(PdfText(slug)))) = 0

\* C5 as stated: a document from which no member list is decoded has no
\* output file, and the entry that went through it was logged as an error,
\* not as saved.
C5_NoMembersIsFailure ==
  /\ \A slug \in Slugs : NoMemberList(slug) => ~files[slug].exists
  /\ (entryIdx > 1 /\ lastLog = "records saved")
       => ~NoMemberList(sessionsWithPdf[entryIdx - 1])

\* the step is the loop of main going through the entry of slug
GoesThrough(slug) ==
  /\ InLoop
  /\ Entry = slug
  /\ entryIdx' = entryIdx + 1

C30_CountedOnceAndDelayed ==
  [][/\ mpc = "loop" => successCount + skipCount + errorCount = entryIdx - 1
     /\ mpc' = "exit" => successCount' + skipCount' + errorCount' = Len(sessionsWithPdf)
     /\ \A slug \in Slugs :
          GoesThrough(slug) =>
            /\ (successCount' + skipCount' + errorCount')
                 = (successCount + skipCount + errorCount) + 1
            /\ successCount' >= successCount
            /\ skipCount' >= skipCount
            /\ errorCount' >= errorCount
     /\ errorCount' = errorCount + 1
          => /\ files' = files
             /\ mpc' = "loop"
             /\ entryIdx' = entryIdx + 1
     /\ \A slug \in Slugs :
          fetched'[slug] # fetched[slug]
            => /\ fetched'[slug] = fetched[slug] + 1
               /\ delays' = delays + 1
               /\ \A other \in Slugs \ {slug} : fetched'[other] = fetched[other]
     /\ delays' # delays => fetched' # fetched
    ]_vars

\* C30 witness: the first run has ended; the first session failed and has no
\* file, the second one after it was requested and written, each after a
\* delay of its own.
C30_Witness ==
  /\ run = 1 /\ mpc = "exit"
  /\ errorCount = 1 /\ successCount = 1 /\ skipCount = 0
  /\ ~files[sessionsWithPdf[1]].exists
  /\ files[sessionsWithPdf[2]].exists
  /\ fetched = [slug \in Slugs |-> 1]
  /\ delays = 2

====
